---- MODULE Spec2Model ----
(***************************************************************************)
(* Model of the llm-benchmark orchestration engine: the Fix-Loop           *)
(* (runTestWithLoop) and the Benchmark Coordinator (checkModelAvailability *)
(* and runBenchmark) of the CLI runner (src/src/core/runner.js) and of the *)
(* web runner (src/web/lib/runner.js), with the web runner's               *)
(* cancelBenchmark.                                                        *)
(*                                                                         *)
(* JavaScript runs one task at a time: between two awaits a function runs  *)
(* without interleaving.  pc names the statement the run stands at; the    *)
(* pcs of AwaitPcs are the suspension points (an outstanding gateway call  *)
(* or a sleep), the only places where a user event (cancelBenchmark) can   *)
(* run.                                                                    *)
(***************************************************************************)
EXTENDS Integers, Sequences, FiniteSets, TLC

\* ---------------------------------------------------------------- bounds
NumModels == 3      \* size of the model registry the requests draw from
NumTests == 2       \* largest number of test cases of a run
MaxIter == 2        \* largest maxIterations option of a run
MaxLoad == 6        \* largest |models| * |testCases| * maxIterations of a run
MaxRuns == 2        \* largest number of runBenchmark invocations (AbortControllers)
MaxUpdates == 3     \* largest number of store.js calls of a behaviour
MaxLogs == 502      \* largest number of addLog calls of a behaviour
MaxKeyTests == 2    \* largest number of testApiKey calls of a behaviour
MaxRetries == 3     \* largest maxRetries option of a callLLM invocation

\* ------------------------------------------------------------ value sets
ModelIds == 1..NumModels

\* The transport errors a gateway call raises in this model (two distinct
\* messages, so that a result's error can be told from another's).
GatewayErrors == {"API error: 429", "Request timed out"}

CancelledMsg == "Benchmark cancelled"
NoModelsMsg == "No models available"
NullSignalMsg == "Cannot read properties of null (reading 'signal')"

Null == <<>>
Some(x) == <<x>>

\* Generated text, abstracted to what validateJSX can observe of it.
Code(p, h, b, a, d) ==
  [parses |-> p, hrefHash |-> h, buttonClosedByA |-> b,
   aClosedByButton |-> a, dupClassName |-> d]

CleanCode == Code(TRUE, FALSE, FALSE, FALSE, FALSE)
MismatchedCode == Code(TRUE, FALSE, TRUE, FALSE, FALSE)

\* The texts the gateway returns in the runs of this model.
RunCodes == {CleanCode, MismatchedCode}

\* ------------------------------------------------------------- validator
HasType(errors, t) == \E i \in 1..Len(errors) : errors[i].type = t

ValidationError(t) == [type |-> t]

\* A validateJSX whose catch block does not return: the pattern checks run on
\* a text that failed to parse as well.
ValidateJSXNoShortCircuit(code) ==
  LET e0 == IF ~code.parses THEN <<ValidationError("SYNTAX_ERROR")>> ELSE <<>>
      e1 == IF code.hrefHash THEN e0 \o <<ValidationError("NAVIGATION_ERROR")>> ELSE e0
      e2 == IF code.buttonClosedByA
            THEN e1 \o <<ValidationError("MISMATCHED_TAGS")>> ELSE e1
      e3 == IF code.aClosedByButton
            THEN e2 \o <<ValidationError("MISMATCHED_TAGS")>> ELSE e2
      errors == IF code.dupClassName
                THEN e3 \o <<ValidationError("DUPLICATE_ATTRIBUTE")>> ELSE e3
  IN [valid |-> Len(errors) = 0,
      errors |-> errors,
      checks |-> [validJSX |-> ~HasType(errors, "SYNTAX_ERROR"),
                  noHrefHash |-> ~HasType(errors, "NAVIGATION_ERROR"),
                  noMismatchedTags |-> ~HasType(errors, "MISMATCHED_TAGS"),
                  noDuplicateAttrs |-> ~HasType(errors, "DUPLICATE_ATTRIBUTE")]]

\* A validateJSX whose second tag check is an else-if of the first: an anchor
\* closed by </button> goes unreported when a button is closed by </a>.
ValidateJSXElseIf(code) ==
  IF ~code.parses
  THEN [valid |-> FALSE, errors |-> <<ValidationError("SYNTAX_ERROR")>>]
  ELSE LET e1 == IF code.hrefHash THEN <<ValidationError("NAVIGATION_ERROR")>> ELSE <<>>
           e2 == IF code.buttonClosedByA
                 THEN e1 \o <<ValidationError("MISMATCHED_TAGS")>> ELSE e1
           e3 == IF code.aClosedByButton /\ ~code.buttonClosedByA
                 THEN e2 \o <<ValidationError("MISMATCHED_TAGS")>> ELSE e2
           errors == IF code.dupClassName
                     THEN e3 \o <<ValidationError("DUPLICATE_ATTRIBUTE")>> ELSE e3
       IN [valid |-> Len(errors) = 0,
           errors |-> errors,
           checks |-> [validJSX |-> ~HasType(errors, "SYNTAX_ERROR"),
                       noHrefHash |-> ~HasType(errors, "NAVIGATION_ERROR"),
                       noMismatchedTags |-> ~HasType(errors, "MISMATCHED_TAGS"),
                       noDuplicateAttrs |-> ~HasType(errors, "DUPLICATE_ATTRIBUTE")]]

\* validateJSX(code)
ValidateJSX(code) ==
  IF ~code.parses
  THEN [valid |-> FALSE, errors |-> <<ValidationError("SYNTAX_ERROR")>>]
  ELSE LET e1 == IF code.hrefHash THEN <<ValidationError("NAVIGATION_ERROR")>> ELSE <<>>
           e2 == IF code.buttonClosedByA
                 THEN e1 \o <<ValidationError("MISMATCHED_TAGS")>> ELSE e1
           e3 == IF code.aClosedByButton
                 THEN e2 \o <<ValidationError("MISMATCHED_TAGS")>> ELSE e2
           errors == IF code.dupClassName
                     THEN e3 \o <<ValidationError("DUPLICATE_ATTRIBUTE")>> ELSE e3
       IN [valid |-> Len(errors) = 0,
           errors |-> errors,
           checks |-> [validJSX |-> ~HasType(errors, "SYNTAX_ERROR"),
                       noHrefHash |-> ~HasType(errors, "NAVIGATION_ERROR"),
                       noMismatchedTags |-> ~HasType(errors, "MISMATCHED_TAGS"),
                       noDuplicateAttrs |-> ~HasType(errors, "DUPLICATE_ATTRIBUTE")]]

\* const { language = 'jsx' } = options; runTestWithLoop calls
\* validateCode(currentCode) with no options.
DefaultLanguage == "jsx"

\* The declared content kinds of the validateCode calls checked here: the four
\* that validateCode supports and two that it does not.
Languages == {"jsx", "tsx", "javascript", "typescript", "python", ""}

\* A text as validateCode can observe it: whether it is the empty string
\* ("empty"), made of whitespace only ("blank") or neither ("other"), with the
\* features validateJSX reads from it.
Text(kind, code) == [text |-> kind] @@ code

\* The input texts: the empty and the whitespace-only text parse as an empty
\* program and match no pattern; any other text has any of the features.
Texts ==
  {Text("empty", CleanCode), Text("blank", CleanCode)} \cup
    {Text("other", Code(p, h, b, a, d)) : p, h, b, a, d \in BOOLEAN}

\* validateCode(code, {language})
ValidateCode(code, language) ==
  IF language \in {"jsx", "tsx", "javascript", "typescript"}
  THEN ValidateJSX(code)
  ELSE [valid |-> code.text = "other",
        errors |-> IF code.text # "empty" THEN <<>>
                   ELSE <<[type |-> "EMPTY_CODE"]>>]

ErrorTypes(errors) == [i \in 1..Len(errors) |-> errors[i].type]

\* ------------------------------------------------------------------ state
VARIABLES
  variant,           \* "cli" (src/src/core/runner.js) or "web" (src/web/lib/runner.js)
  pc,                \* the statement the run stands at
  models,            \* options.models: the requested models, in request order
  numTests,          \* options.testCases.length
  maxIterations,     \* options.maxIterations
  abortController,   \* web: the module-level abortController (Null or Some(id))
  aborted,           \* web: the controllers whose signal is aborted
  controllers,       \* web: number of AbortControllers constructed so far
  otherRuns,         \* web: the other runBenchmark invocations that have not ended
  cancelPc,          \* history: where the run stood when cancelBenchmark aborted its controller
  store,             \* web: the store's phase, isRunning and results (store.js)
  progress,          \* web: the store's totalTests and completedTests (store.js)
  completedTests,    \* web runBenchmark: let completedTests
  totalTokens,       \* web: the store's totalTokens (store.js)
  available,         \* checkModelAvailability: available
  unavailable,       \* checkModelAvailability: unavailable
  probeIdx,          \* checkModelAvailability: position of the for loop in models
  results,           \* runBenchmark: results, model id -> aggregate
  testIdx,           \* runBenchmark: position of the outer for loop (test cases)
  modelIdx,          \* runBenchmark: position of the inner for loop (available)
  iteration,         \* runTestWithLoop: iteration
  currentCode,       \* runTestWithLoop: currentCode (Null or Some(code))
  validationResult,  \* runTestWithLoop: validationResult (Null or Some(v))
  iterationHistory,  \* runTestWithLoop: iterationHistory
  tokenUsage,        \* runTestWithLoop: tokenUsage
  slept,             \* runTestWithLoop: the delays that elapsed in the invocation, in ms
  result,            \* runBenchmark: result, the TestResult of the current pair
  outcome,           \* how runBenchmark settled: Null, returned or thrown
  outstanding,       \* gateway calls issued and not yet settled
  calls,             \* history: the gateway calls of the current Fix-Loop, with outcome
  probed,            \* history: the models probed, in order
  started,           \* history: the <<test, model>> pairs whose Fix-Loop started, in order
  completed,         \* history: model id -> number of TestResults folded for it
  folded,            \* history: model id -> iterations and tokenUsage summed over them
  firstTryAll,       \* history: every initial generation so far returned valid code
  gatewayPc,         \* callLLM: the statement the invocation stands at
  apiKeySet,         \* callLLM: storedApiKey (web) / OPENAI_API_KEY (Node) is set
  useResponsesAPI,   \* callLLM: the model is served by the Responses API
  maxRetries,        \* callLLM: maxRetries
  baseDelay,         \* callLLM: baseDelay
  attempt,           \* callLLM: attempt, the counter of the retry loop
  lastError,         \* callLLM: lastError (Null or Some(error))
  gatewayResult,     \* how callLLM settled: Null, returned or thrown
  network,           \* history: the outcomes of the network attempts, in order
  waits,             \* history: the delays slept between attempts, in order
  validated,         \* validateCode: Null, or the last call with its ValidationResult
  heap,              \* store.js: the objects allocated so far; a reference is an index
  state,             \* store.js: let state, a reference to the current snapshot
  published,         \* store.js: the snapshots handed to getState callers and listeners
  storeOp,           \* store.js: Null, or the last call of an exported function
  request,           \* callLLM: Null, or the last call with the requests it builds
  storedApiKey,      \* web llmClient.js: let storedApiKey (Null or Some(key))
  logs,              \* store.js: state.logs, each log by its emission number
  emitted,           \* history: the number of addLog calls so far
  keyTests           \* the testApiKey calls so far: their locals and position

inputVars == <<models, numTests, maxIterations>>
cancelVars == <<abortController, aborted, controllers, otherRuns, cancelPc>>
probeVars == <<available, unavailable, probeIdx>>
coordVars == <<results, testIdx, modelIdx>>
loopVars ==
  <<iteration, currentCode, validationResult, iterationHistory, tokenUsage, slept>>
histVars == <<probed, started, completed, folded, firstTryAll>>

\* The state of the runners.
progressVars == <<progress, completedTests, totalTokens>>
runVars == <<pc, inputVars, cancelVars, store, progressVars, probeVars, coordVars, loopVars,
             result, outcome, outstanding, calls, histVars>>

\* The state of one callLLM invocation of the gateway (the Node llmClient for
\* the CLI runner, web/lib/llmClient.js for the web runner).
gatewayVars == <<gatewayPc, apiKeySet, useResponsesAPI, maxRetries, baseDelay,
                 attempt, lastError, gatewayResult, network, waits>>

snapshotVars == <<heap, state, published, storeOp>>
keyVars == <<storedApiKey, keyTests>>
logVars == <<logs, emitted>>
componentVars == <<validated, snapshotVars, request, keyVars, logVars>>
vars == <<variant, runVars, gatewayVars, componentVars>>

\* The suspension points: an outstanding gateway call or a sleep.
AwaitPcs == {"probeCall", "probeSleep", "genCall", "fixCall", "iterSleep", "pairSleep"}

\* getSelectedModels(selectedIds): MODELS.filter(...), the selected models in
\* registry order (the registry lists the models by increasing id here).
GetSelectedModels(selectedIds) ==
  CHOOSE ms \in [1..Cardinality(selectedIds) -> selectedIds] :
    \A i, j \in 1..Cardinality(selectedIds) : i < j => ms[i] < ms[j]

Reverse(s) == [i \in 1..Len(s) |-> s[Len(s) + 1 - i]]

\* The request lists.  The App passes getSelectedModels(state.selectedModels);
\* a caller of the CLI runner passes a list in an order of its own (here the
\* registry order or its reverse).
ModelLists(v) ==
  LET inOrder == {GetSelectedModels(S) : S \in SUBSET ModelIds}
  IN IF v = "web" THEN inOrder ELSE inOrder \cup {Reverse(ms) : ms \in inOrder}

\* ------------------------------------------------------------ cancellation
\* abortController.signal.aborted (web runner.js:337, 390): reading .signal of
\* null raises a TypeError.
SignalAborted(ctl) == ctl[1] \in aborted

\* A check that reads a signal kept from the run's own controller, which stays
\* aborted after cancelBenchmark.
SignalOfCancelledRun(ctl) == aborted # {}

\* abortController?.signal.aborted (web runner.js:85, 205): undefined, hence
\* falsy, when abortController is null.
OptionalSignalAborted(ctl) == ctl # Null /\ SignalAborted(ctl)

\* ---------------------------------------------------------------- Fix-Loop
\* let iteration = 0 (both runners); the web runner sets iteration = 1 before
\* the initial call (web runner.js:147), the CLI runner after it (runner.js:92).
IterationBeforeInitialCall(v) == IF v = "web" THEN 1 ELSE 0

\* await sleep(500): the delay at the end of a fix iteration, in ms.
IterationDelay == 500

\* const tokenUsage = { prompt: 0, completion: 0, reasoning: 0 }
ZeroUsage == [prompt |-> 0, completion |-> 0, reasoning |-> 0]

\* response.usage as a gateway response carries it: each count is <<n>>, or
\* <<>> when the field is undefined (reasoning_tokens stands for
\* completion_tokens_details?.reasoning_tokens).
Usage(p, c, r) == [prompt_tokens |-> p, completion_tokens |-> c, reasoning_tokens |-> r]

\* x || 0
OrZero(x) == IF Len(x) = 0 THEN 0 ELSE x[1]

\* The usage of the responses: without usage (Null), with an empty usage
\* object, with some of the counts, with all of them.
Usages ==
  {Null, Some(Usage(<<>>, <<>>, <<>>)), Some(Usage(<<1>>, <<>>, <<>>)),
   Some(Usage(<<3>>, <<2>>, <<1>>))}

\* The responses in the runs of several pairs carry no usage; the runs of
\* TokenSpec carry this one.
RunUsages == {Null}
TokenUsages == {Some(Usage(<<3>>, <<2>>, <<1>>))}

\* A tracking that keeps the usage of the latest response only.
TrackUsageOverwrites(t, usage) ==
  IF usage = Null THEN t
  ELSE [prompt |-> OrZero(usage[1].prompt_tokens),
        completion |-> OrZero(usage[1].completion_tokens),
        reasoning |-> OrZero(usage[1].reasoning_tokens)]

\* if (response.usage) { tokenUsage.prompt += ... || 0; ... }
TrackUsage(t, usage) ==
  IF usage = Null THEN t
  ELSE [prompt |-> t.prompt + OrZero(usage[1].prompt_tokens),
        completion |-> t.completion + OrZero(usage[1].completion_tokens),
        reasoning |-> t.reasoning + OrZero(usage[1].reasoning_tokens)]

\* if (response.usage) { ...; addTokens(... || 0, ... || 0, ... || 0) } of the
\* web runner (web runner.js:164-174, 243-252); the CLI runner has no store.
AddTokensOf(v, t, usage) ==
  IF v = "web" /\ usage # Null
  THEN [prompt |-> t.prompt + OrZero(usage[1].prompt_tokens),
        completion |-> t.completion + OrZero(usage[1].completion_tokens),
        reasoning |-> t.reasoning + OrZero(usage[1].reasoning_tokens)]
  ELSE t

\* Variants of the while condition, as slips of the code would have it: one
\* iteration too many, one too few, and a loop that goes on after a valid verdict.
LoopCondOneMore(valid, iter, maxIter) == ~valid /\ iter <= maxIter
LoopCondOneLess(valid, iter, maxIter) == ~valid /\ iter + 1 < maxIter
LoopCondIgnoresVerdict(valid, iter, maxIter) == iter < maxIter

\* while (!validationResult.valid && iteration < maxIterations)
LoopCond(valid, iter, maxIter) == ~valid /\ iter < maxIter

IterationRecord(iter, v) ==
  [iteration |-> iter, valid |-> v.valid, errors |-> ErrorTypes(v.errors)]

\* The object returned after the loop (runner.js:151-160, web runner.js:286-295).
SuccessResult(code, v, iter, history, usage) ==
  [success |-> TRUE, code |-> code, validation |-> v, iterations |-> iter,
   iterationHistory |-> history, passedAfterLoop |-> v.valid, tokenUsage |-> usage]

\* A catch block that reports a fixed text instead of error.message.
FailureResultFixedText(msg, iter, history, usage) ==
  [success |-> FALSE, error |-> "Unknown error", iterations |-> iter,
   iterationHistory |-> history,
   validation |-> [valid |-> FALSE, checks |-> <<>>],
   passedAfterLoop |-> FALSE, tokenUsage |-> usage]

\* The object returned by the catch block (runner.js:162-170, web runner.js:297-305).
FailureResult(msg, iter, history, usage) ==
  [success |-> FALSE, error |-> msg, iterations |-> iter,
   iterationHistory |-> history,
   validation |-> [valid |-> FALSE, checks |-> <<>>],
   passedAfterLoop |-> FALSE, tokenUsage |-> usage]

\* ------------------------------------------------------------- Coordinator
\* results[model.id] = {...} (runner.js:198-207); tests holds the length of the
\* tests array.
\* a.prompt += b.prompt; a.completion += b.completion; a.reasoning += b.reasoning
AddUsage(a, b) ==
  [prompt |-> a.prompt + b.prompt, completion |-> a.completion + b.completion,
   reasoning |-> a.reasoning + b.reasoning]

\* The iterations and the tokenUsage of a TestResult added to the sums kept
\* beside the aggregates.
Observed(sums, r) ==
  [iterations |-> sums.iterations + r.iterations,
   tokenUsage |-> AddUsage(sums.tokenUsage, r.tokenUsage)]

NewAggregate ==
  [tests |-> 0, passedFirstTry |-> 0, passedAfterLoop |-> 0, totalFailed |-> 0,
   totalIterations |-> 0, totalTokens |-> ZeroUsage]

\* A fold whose error branch forgets totalFailed++.
FoldDropsErrors(agg, r) ==
  IF r.success
  THEN LET counted ==
             IF r.passedAfterLoop
             THEN IF r.iterations = 1
                  THEN [agg EXCEPT !.passedFirstTry = @ + 1]
                  ELSE [agg EXCEPT !.passedAfterLoop = @ + 1]
             ELSE [agg EXCEPT !.totalFailed = @ + 1]
       IN [counted EXCEPT !.tests = @ + 1,
                          !.totalIterations = @ + r.iterations,
                          !.totalTokens = AddUsage(@, r.tokenUsage)]
  ELSE agg

\* A fold that counts every pass as a pass after the loop.
FoldFirstTryAsLoop(agg, r) ==
  IF r.success
  THEN LET counted ==
             IF r.passedAfterLoop
             THEN [agg EXCEPT !.passedAfterLoop = @ + 1]
             ELSE [agg EXCEPT !.totalFailed = @ + 1]
       IN [counted EXCEPT !.tests = @ + 1,
                          !.totalIterations = @ + r.iterations,
                          !.totalTokens = AddUsage(@, r.tokenUsage)]
  ELSE [agg EXCEPT !.totalFailed = @ + 1]

\* The fold of one TestResult into its model's aggregate (runner.js:222-253).
Fold(agg, r) ==
  IF r.success
  THEN LET counted ==
             IF r.passedAfterLoop
             THEN IF r.iterations = 1
                  THEN [agg EXCEPT !.passedFirstTry = @ + 1]
                  ELSE [agg EXCEPT !.passedAfterLoop = @ + 1]
             ELSE [agg EXCEPT !.totalFailed = @ + 1]
       IN [counted EXCEPT !.tests = @ + 1,
                          !.totalIterations = @ + r.iterations,
                          !.totalTokens = AddUsage(@, r.tokenUsage)]
  ELSE [agg EXCEPT !.totalFailed = @ + 1]

\* The value runBenchmark returns (runner.js:263-268).
BenchmarkRun ==
  [results |-> results, available |-> available, unavailable |-> unavailable,
   testCount |-> numTests]

Returned(run) == Some([kind |-> "returned", run |-> run])
Thrown(msg) == Some([kind |-> "thrown", error |-> msg])

GatewayCall(kind, m) == [kind |-> kind, model |-> m]

\* callLLM(...) is called: one more gateway call is outstanding.
Issued(out, call) == Append(out, call)

\* The awaited callLLM settled (returned or raised): it is outstanding no more.
Settled(out, call) ==
  LET i == CHOOSE k \in 1..Len(out) : out[k] = call
  IN SubSeq(out, 1, i - 1) \o SubSeq(out, i + 1, Len(out))

\* The record the history keeps of a settled gateway call of the Fix-Loop.
Returns(kind, usage) == [kind |-> kind, raised |-> FALSE, error |-> "", usage |-> usage]
Raises(kind, e) == [kind |-> kind, raised |-> TRUE, error |-> e, usage |-> Null]

\* for (const testCase of testCases) { for (const model of available) {...} }:
\* the pair after the pair at <<test t, i-th available model>>.
NextPair(t, i, nAvailable) ==
  IF i < nAvailable THEN <<t, i + 1>> ELSE <<t + 1, 1>>

ResetLoop ==
  /\ iteration' = 0
  /\ currentCode' = Null
  /\ validationResult' = Null
  /\ iterationHistory' = <<>>
  /\ tokenUsage' = ZeroUsage
  /\ slept' = <<>>

\* The store as initialState has it (store.js:7-41), and as resetState leaves
\* it: the fields a run writes are back to their initial values.
InitialStore == [phase |-> "idle", isRunning |-> FALSE, results |-> Null]

\* totalTests and completedTests of initialState (store.js:22-23).
InitialProgress == [totalTests |-> 0, completedTests |-> 0]

\* setState({totalTests, completedTests}) of the web runner; the CLI runner has
\* no store.
SetProgress(v, st, total, done) ==
  IF v = "web" THEN [totalTests |-> total, completedTests |-> done] ELSE st

\* setState({phase, isRunning, results}) of the web runner; the CLI runner has
\* no store.
SetState(v, st, phase, running, res) ==
  IF v = "web" THEN [phase |-> phase, isRunning |-> running, results |-> res] ELSE st

\* An error leaves runBenchmark: the run is over (the web runner's catch block
\* rethrows it, web runner.js:469-476).
RunThrows(msg) ==
  /\ pc' = "done"
  /\ outcome' = Thrown(msg)
  /\ store' = SetState(variant, store, "idle", FALSE, store.results)
  /\ UNCHANGED progressVars

\* ----------------------------------------------------------------- Gateway
\* An error as the retry loop sees it: error.name, error.status (0 when
\* undefined), error.code ("" when undefined) and error.message, the message
\* kept as the sequence of its phrases.
GatewayError(name, status, code, message) ==
  [name |-> name, status |-> status, code |-> code, message |-> message]

\* message.includes(phrase)
MessageIncludes(message, phrase) == \E i \in 1..Len(message) : message[i] = phrase

\* A response that is not ok: new Error(errorBody.error?.message ||
\* `API error: ${response.status}`) with error.status = response.status.
HttpError(status) == GatewayError("Error", status, "", <<"API error:", ToString(status)>>)

HttpStatuses == {400, 429, 500, 502, 503, 504}

\* A provider message about the rate limit on an error without a status.
RateLimited == GatewayError("Error", 0, "", <<"You exceeded your", "rate limit">>)

\* fetch() rejects: the network failed, or the AbortController of the timeout
\* fired (controller.abort() after `timeout` ms).
FailedToFetch == GatewayError("TypeError", 0, "", <<"Failed to fetch">>)
AbortError == GatewayError("AbortError", 0, "", <<"The operation was aborted">>)
TimedOut == GatewayError("Error", 0, "", <<"Request timed out after", "ms">>)

\* A connection error of the Node client, with a system error code.
CodeError(code) == GatewayError("Error", 0, code, <<"Connection error">>)

ErrorCodes == {"ECONNRESET", "ETIMEDOUT", "ENOTFOUND"}

ApiKeyNotSet == GatewayError("Error", 0, "", <<"API key not set">>)

\* The attempt goes through fetch (callResponsesAPI, and callChatCompletionsAPI
\* of the browser client) rather than through the OpenAI client of Node.
UsesFetch(v, responses) == v = "web" \/ responses

\* What a network attempt can fail with.
AttemptFailures(v, responses) ==
  {HttpError(s) : s \in HttpStatuses} \cup {RateLimited} \cup
    (IF UsesFetch(v, responses) THEN {FailedToFetch, AbortError}
     ELSE {CodeError(c) : c \in ErrorCodes})

\* The catch block of callResponsesAPI / callChatCompletionsAPI: an AbortError
\* is reported as a timeout error, anything else is rethrown.
ReportedError(v, responses, error) ==
  IF UsesFetch(v, responses) /\ error.name = "AbortError" THEN TimedOut ELSE error

\* A classification that retries whatever failed.
IsRetryableAlways(v, error) == TRUE

\* isRetryableError(error) of the Node client, isRetryableError(error.status,
\* error.message) of the browser client.
IsRetryableError(v, error) ==
  \/ error.status = 429
  \/ error.status = 500
  \/ error.status = 502
  \/ error.status = 503
  \/ error.status = 504
  \/ v = "cli" /\ error.code = "ECONNRESET"
  \/ v = "cli" /\ error.code = "ETIMEDOUT"
  \/ MessageIncludes(error.message, "rate limit")

RECURSIVE Pow2(_)
\* Math.pow(2, k)
Pow2(k) == IF k = 0 THEN 1 ELSE 2 * Pow2(k - 1)

\* A backoff that waits baseDelay every time.
DelayConstant(base, k) == base

\* const delay = baseDelay * Math.pow(2, attempt)
Delay(base, k) == base * Pow2(k)

\* The baseDelay options of the invocations.
BaseDelays == {500, 1000}

\* callLLM settles by throwing.
GatewayThrows(error) ==
  /\ gatewayResult' = Thrown(error)
  /\ gatewayPc' = "done"

\* ------------------------------------------------------------------- Init
\* ------------------------------------------------- models.js and callLLM
\* A model identifier is the sequence of its characters, so that includes and
\* startsWith are computed on it.
StartsWith(s, prefix) == Len(prefix) <= Len(s) /\ SubSeq(s, 1, Len(prefix)) = prefix
Includes(s, sub) ==
  \E i \in 1..(Len(s) - Len(sub) + 1) : SubSeq(s, i, i + Len(sub) - 1) = sub

\* export const MODELS (models.js).
MODELS ==
  <<
     [name |-> "GPT-5.1-codex",
      id |-> <<"g", "p", "t", "-", "5", ".", "1", "-", "c", "o", "d", "e", "x", "-", "m", "i", "n", "i">>],
     [name |-> "GPT-5-mini",
      id |-> <<"g", "p", "t", "-", "5", "-", "m", "i", "n", "i">>],
     [name |-> "GPT-5-nano",
      id |-> <<"g", "p", "t", "-", "5", "-", "n", "a", "n", "o">>],
     [name |-> "GPT-4.1",
      id |-> <<"g", "p", "t", "-", "4", ".", "1">>],
     [name |-> "GPT-4.1-mini",
      id |-> <<"g", "p", "t", "-", "4", ".", "1", "-", "m", "i", "n", "i">>],
     [name |-> "GPT-4.1-nano",
      id |-> <<"g", "p", "t", "-", "4", ".", "1", "-", "n", "a", "n", "o">>],
     [name |-> "GPT-4o",
      id |-> <<"g", "p", "t", "-", "4", "o">>],
     [name |-> "GPT-4o-mini",
      id |-> <<"g", "p", "t", "-", "4", "o", "-", "m", "i", "n", "i">>],
     [name |-> "o1-mini",
      id |-> <<"o", "1", "-", "m", "i", "n", "i">>],
     [name |-> "o3-mini",
      id |-> <<"o", "3", "-", "m", "i", "n", "i">>],
     [name |-> "o4-mini",
      id |-> <<"o", "4", "-", "m", "i", "n", "i">>],
     [name |-> "Codex-latest",
      id |-> <<"c", "o", "d", "e", "x", "-", "m", "i", "n", "i", "-", "l", "a", "t", "e", "s", "t">>]
  >>

\* TIMEOUT_CONFIG, in ms.
TIMEOUT_CONFIG == [default |-> 120000, reasoning |-> 300000, gpt5 |-> 300000, codex |-> 300000]

getTimeout(modelId) ==
  IF \/ StartsWith(modelId, <<"o", "1">>)
     \/ StartsWith(modelId, <<"o", "3">>)
     \/ StartsWith(modelId, <<"o", "4">>)
  THEN TIMEOUT_CONFIG.reasoning
  ELSE IF Includes(modelId, <<"g", "p", "t", "-", "5">>) THEN TIMEOUT_CONFIG.gpt5
  ELSE IF Includes(modelId, <<"c", "o", "d", "e", "x">>) THEN TIMEOUT_CONFIG.codex
  ELSE TIMEOUT_CONFIG.default

isResponsesAPIModel(model) ==
  Includes(model, <<"c", "o", "d", "e", "x">>) \/ Includes(model, <<"5", ".", "1">>)

isReasoningModel(model) ==
  \/ StartsWith(model, <<"o", "1">>)
  \/ StartsWith(model, <<"o", "3">>)
  \/ StartsWith(model, <<"o", "4">>)

isGPT5Model(model) == Includes(model, <<"g", "p", "t", "-", "5">>)

needsSpecialHandling(model) == isGPT5Model(model) \/ isReasoningModel(model)

Max(a, b) == IF a >= b THEN a ELSE b

\* needsSpecialHandling ? Math.max(maxTokens * 4, 6000) : maxTokens
effectiveMaxTokens(model, maxTokens) ==
  IF needsSpecialHandling(model) THEN Max(maxTokens * 4, 6000) ELSE maxTokens

\* The messages built from systemPrompt and userPrompt.
FinalMessages == <<[role |-> "system"], [role |-> "user"]>>

\* The body POSTed to /v1/responses by callResponsesAPI.
ResponsesBody(model, maxTokens) ==
  [endpoint |-> "responses", model |-> model, input |-> FinalMessages,
   max_output_tokens |-> maxTokens]

\* A chat request that always carries max_tokens and the temperature.
ChatBodyPlain(model, special, specialTokens, plainTokens, temperature) ==
  [endpoint |-> "chat", model |-> model, messages |-> FinalMessages,
   max_tokens |-> plainTokens, temperature |-> temperature]

\* The chat completions request: { model, messages, ...tokenParam, ...tempParam }.
ChatBody(model, special, specialTokens, plainTokens, temperature) ==
  [endpoint |-> "chat", model |-> model, messages |-> FinalMessages] @@
  (IF special THEN [max_completion_tokens |-> specialTokens]
   ELSE [max_tokens |-> plainTokens, temperature |-> temperature])

\* The request of the Node callLLM (part_000:393-438).
NodeRequest(model, maxTokens, temperature) ==
  IF isResponsesAPIModel(model)
  THEN ResponsesBody(model, effectiveMaxTokens(model, maxTokens))
  ELSE ChatBody(model, needsSpecialHandling(model), effectiveMaxTokens(model, maxTokens),
                maxTokens, temperature)

\* The request of the browser callLLM (llmClient.js:207-248, 143-152).
WebRequest(model, maxTokens, temperature) ==
  IF isResponsesAPIModel(model)
  THEN ResponsesBody(model, effectiveMaxTokens(model, maxTokens))
  ELSE ChatBody(model, needsSpecialHandling(model), effectiveMaxTokens(model, maxTokens),
                effectiveMaxTokens(model, maxTokens), temperature)

\* The maxTokens and temperature options (temperature in tenths) that the
\* calls are drawn from: budgets below, at and above the floor of 6000 / 4.
MaxTokensOptions == {500, 1500, 2000, 4000, 8000}
TemperatureOptions == {3, 7}

\* ------------------------------------------------------------- store.js
\* The objects of store.js live in a heap: a reference is an index of heap, an
\* object literal or an array literal allocates the next index, and a
\* property that holds an object or an array holds its reference.
Alloc(h, obj) == Append(h, obj)
Ref(h) == Len(h)

\* { ...obj, ...updates }: the properties of updates win.
Spread(obj, updates) == updates @@ obj

\* const initialState = {...} (store.js:7-41) with the objects it holds: the
\* logs array, the modelStatus object and the totalTokens object; and
\* let state = { ...initialState } (store.js:43), a copy that shares them.
InitialLogsRef == 1
InitialModelStatusRef == 2
InitialTotalTokensRef == 3
InitialStateRef == 4
\* MODELS.slice(0, 3).map((m) => m.id) is written with the ids as strings.
InitialFields ==
  [apiKey |-> "", apiKeyValid |-> Null,
   selectedModels |-> <<"gpt-5.1-codex-mini", "gpt-5-mini", "gpt-5-nano">>,
   testSuite |-> "navigation", maxIterations |-> 3,
   phase |-> "idle", isRunning |-> FALSE,
   availableModels |-> <<>>, unavailableModels |-> <<>>,
   totalTests |-> 0, completedTests |-> 0,
   modelStatus |-> InitialModelStatusRef, results |-> Null,
   logs |-> InitialLogsRef, totalTokens |-> InitialTotalTokensRef]
InitialHeap ==
  << <<>>,
     <<>>,
     [prompt |-> 0, completion |-> 0, reasoning |-> 0],
     InitialFields,
     InitialFields >>

\* The fields that resetState keeps from the current state (store.js:63-67).
ConfigFields == {"apiKey", "apiKeyValid", "selectedModels", "testSuite", "maxIterations"}

\* .slice(-500) of addLog.
LogLimit == 500
LastN(s, n) == IF Len(s) <= n THEN s ELSE SubSeq(s, Len(s) - n + 1, Len(s))

\* A slice that keeps the first 500 logs: .slice(0, 500).
LoggedKeepsOldest(entries, log) ==
  SubSeq(Append(entries, log), 1, IF Len(entries) + 1 <= LogLimit THEN Len(entries) + 1 ELSE LogLimit)

\* [...state.logs, log].slice(-500) (store.js:81).
Logged(entries, log) == LastN(Append(entries, log), LogLimit)

\* state = { ...state, ...updates } (store.js:51): the heap with the new
\* snapshot as its last object.
Replaced(h, s, updates) == Alloc(h, Spread(h[s], updates))

\* The updates of the setState calls, the levels of the logs, the status
\* updates and the token counts that the calls are drawn from.
SetStateUpdates ==
  << [phase |-> "running"],
     [completedTests |-> 1],
     [phase |-> "complete", isRunning |-> FALSE, results |-> Some([run |-> "results"])],
     [maxIterations |-> 2, isRunning |-> TRUE],
     [phase |-> "checking", isRunning |-> TRUE, totalTests |-> 2, completedTests |-> 0],
     [apiKey |-> "sk-a", apiKeyValid |-> Some(TRUE)],
     [selectedModels |-> <<"gpt-5-mini">>, testSuite |-> "all"],
     [availableModels |-> <<"gpt-4o">>, unavailableModels |-> <<"o3-mini">>] >>
LogLevels == {"info", "error"}
StatusModels == {"gpt-4o", "o3-mini"}
StatusUpdates ==
  << [status |-> "running", currentIteration |-> 0],
     [currentIteration |-> 1],
     [status |-> "waiting"] >>
TokenCounts == {<<3, 2, 1>>, <<1, 0, 0>>}

Init ==
  /\ variant \in {"cli", "web"}
  /\ pc = "idle"
  /\ models = <<>>
  /\ numTests = 0
  /\ maxIterations = 1
  /\ abortController = Null
  /\ aborted = {}
  /\ controllers = 0
  /\ otherRuns = 0
  /\ cancelPc = Null
  /\ store = InitialStore
  /\ progress = InitialProgress
  /\ completedTests = 0
  /\ totalTokens = ZeroUsage
  /\ available = <<>>
  /\ unavailable = <<>>
  /\ probeIdx = 1
  /\ results = <<>>
  /\ testIdx = 1
  /\ modelIdx = 1
  /\ iteration = 0
  /\ currentCode = Null
  /\ validationResult = Null
  /\ iterationHistory = <<>>
  /\ tokenUsage = ZeroUsage
  /\ slept = <<>>
  /\ result = Null
  /\ outcome = Null
  /\ outstanding = <<>>
  /\ calls = <<>>
  /\ probed = <<>>
  /\ started = <<>>
  /\ completed = [m \in ModelIds |-> 0]
  /\ folded = [m \in ModelIds |-> [iterations |-> 0, tokenUsage |-> ZeroUsage]]
  /\ firstTryAll = TRUE
  /\ gatewayPc = "idle"
  /\ apiKeySet = TRUE
  /\ useResponsesAPI = FALSE
  /\ maxRetries = 0
  /\ baseDelay = 0
  /\ attempt = 0
  /\ lastError = Null
  /\ gatewayResult = Null
  /\ network = <<>>
  /\ waits = <<>>
  /\ validated = Null
  /\ heap = InitialHeap
  /\ state = Len(InitialHeap)
  /\ published = <<Len(InitialHeap)>>
  /\ storeOp = Null
  /\ request = Null
  /\ storedApiKey = Null
  /\ logs = <<>>
  /\ emitted = 0
  /\ keyTests = <<>>

\* ----------------------------------------------------------- runBenchmark
\* runBenchmark(options) up to the first statement of checkModelAvailability's loop.
StartRun(ms, n, mi) ==
  /\ pc = "idle"
  /\ Len(ms) * n * mi <= MaxLoad
  /\ models' = ms
  /\ numTests' = n
  /\ maxIterations' = mi
  /\ IF variant = "web"
     THEN /\ controllers' = controllers + 1
          /\ abortController' = Some(controllers + 1)
     ELSE UNCHANGED <<controllers, abortController>>
  /\ store' = SetState(variant, InitialStore, "checking", TRUE, Null)
  /\ progress' = SetProgress(variant, InitialProgress, Len(ms) * n, 0)
  /\ totalTokens' = ZeroUsage
  /\ UNCHANGED completedTests
  /\ available' = <<>>
  /\ unavailable' = <<>>
  /\ probeIdx' = 1
  /\ pc' = "probeHead"
  /\ UNCHANGED <<variant, aborted, otherRuns, cancelPc, coordVars, loopVars, result, outcome,
                 outstanding, calls, histVars>>

\* A probe loop that calls callLLM without awaiting it and goes on to the next
\* model at once.
ProbeIssueNoAwait ==
  /\ pc = "probeHead"
  /\ probeIdx <= Len(models)
  /\ outstanding' = Issued(outstanding, GatewayCall("probe", models[probeIdx]))
  /\ probed' = Append(probed, models[probeIdx])
  /\ available' = Append(available, models[probeIdx])
  /\ probeIdx' = probeIdx + 1
  /\ UNCHANGED <<variant, pc, inputVars, cancelVars, store, progressVars, unavailable,
                 coordVars, loopVars,
                 result, outcome, calls, started, completed, folded, firstTryAll>>

\* checkModelAvailability: the head of the for loop, with a model left to probe.
ProbeIssue ==
  /\ pc = "probeHead"
  /\ probeIdx <= Len(models)
  /\ IF variant = "web" /\ OptionalSignalAborted(abortController)
     THEN /\ RunThrows(CancelledMsg)
          /\ UNCHANGED <<outstanding, probed>>
     ELSE /\ outstanding' = Issued(outstanding, GatewayCall("probe", models[probeIdx]))
          /\ probed' = Append(probed, models[probeIdx])
          /\ pc' = "probeCall"
          /\ UNCHANGED <<outcome, store, progressVars>>
  /\ UNCHANGED <<variant, inputVars, cancelVars, probeVars, coordVars, loopVars,
                 result, calls, started, completed, folded, firstTryAll>>

\* A probe that puts the available model first (unshift) instead of last.
ProbeOkUnshift ==
  /\ pc = "probeCall"
  /\ outstanding' = Settled(outstanding, GatewayCall("probe", models[probeIdx]))
  /\ available' = <<models[probeIdx]>> \o available
  /\ pc' = "probeSleep"
  /\ UNCHANGED <<variant, inputVars, cancelVars, store, progressVars, unavailable,
                 probeIdx, coordVars,
                 loopVars, result, outcome, calls, histVars>>

\* The probe's callLLM returned: the model is available.
ProbeOk ==
  /\ pc = "probeCall"
  /\ outstanding' = Settled(outstanding, GatewayCall("probe", models[probeIdx]))
  /\ available' = Append(available, models[probeIdx])
  /\ pc' = "probeSleep"
  /\ UNCHANGED <<variant, inputVars, cancelVars, store, progressVars, unavailable,
                 probeIdx, coordVars,
                 loopVars, result, outcome, calls, histVars>>

\* A probe whose catch block swallows the failure without recording the model.
ProbeRaiseDropsModel(e) ==
  /\ pc = "probeCall"
  /\ outstanding' = Settled(outstanding, GatewayCall("probe", models[probeIdx]))
  /\ pc' = "probeSleep"
  /\ UNCHANGED <<variant, inputVars, cancelVars, store, progressVars, probeVars, coordVars,
                 loopVars, result, outcome, calls, histVars>>

\* A probe whose catch block is missing: the failure of one probe leaves
\* checkModelAvailability and ends the run.
ProbeRaiseAborts(e) ==
  /\ pc = "probeCall"
  /\ outstanding' = Settled(outstanding, GatewayCall("probe", models[probeIdx]))
  /\ RunThrows(e)
  /\ UNCHANGED <<variant, inputVars, cancelVars, probeVars, coordVars,
                 loopVars, result, calls, histVars>>

\* The probe's callLLM raised: the model is unavailable, with the reason.
ProbeRaise(e) ==
  /\ pc = "probeCall"
  /\ outstanding' = Settled(outstanding, GatewayCall("probe", models[probeIdx]))
  /\ unavailable' = Append(unavailable, [model |-> models[probeIdx], error |-> e])
  /\ pc' = "probeSleep"
  /\ UNCHANGED <<variant, inputVars, cancelVars, store, progressVars, available,
                 probeIdx, coordVars,
                 loopVars, result, outcome, calls, histVars>>

\* await sleep(500) (CLI) / sleep(300) (web) after a probe is over.
ProbeSleepDone ==
  /\ pc = "probeSleep"
  /\ probeIdx' = probeIdx + 1
  /\ pc' = "probeHead"
  /\ UNCHANGED <<variant, inputVars, cancelVars, store, progressVars, available,
                 unavailable, coordVars,
                 loopVars, result, outcome, outstanding, calls, histVars>>

\* checkModelAvailability returns; runBenchmark checks the result and
\* initialises results (runner.js:191-208, web runner.js:337-384).
AvailabilityChecked ==
  /\ pc = "probeHead"
  /\ probeIdx > Len(models)
  /\ IF variant = "web" /\ abortController = Null
     THEN RunThrows(NullSignalMsg) /\ UNCHANGED coordVars
     ELSE IF variant = "web" /\ SignalAborted(abortController)
     THEN RunThrows(CancelledMsg) /\ UNCHANGED coordVars
     ELSE IF Len(available) = 0
     THEN RunThrows(NoModelsMsg) /\ UNCHANGED coordVars
     ELSE /\ results' = [m \in {available[i] : i \in 1..Len(available)} |-> NewAggregate]
          /\ testIdx' = 1
          /\ modelIdx' = 1
          /\ pc' = "pairHead"
          /\ store' = SetState(variant, store, "running", store.isRunning, store.results)
          /\ progress' = SetProgress(variant, progress, Len(available) * numTests,
                                     progress.completedTests)
          /\ completedTests' = 0
          /\ UNCHANGED <<outcome, totalTokens>>
  /\ UNCHANGED <<variant, inputVars, cancelVars, probeVars, loopVars, result,
                 outstanding, calls, histVars>>

\* The head of the inner for loop with a pair left: runTestWithLoop starts and
\* issues the initial generation call.
PairStart ==
  /\ pc = "pairHead"
  /\ testIdx <= numTests
  /\ IF variant = "web" /\ abortController = Null
     THEN /\ RunThrows(NullSignalMsg)
          /\ UNCHANGED <<loopVars, outstanding, calls, started>>
     ELSE IF variant = "web" /\ SignalAborted(abortController)
     THEN /\ RunThrows(CancelledMsg)
          /\ UNCHANGED <<loopVars, outstanding, calls, started>>
     ELSE /\ iteration' = IterationBeforeInitialCall(variant)
          /\ currentCode' = Null
          /\ validationResult' = Null
          /\ iterationHistory' = <<>>
          /\ tokenUsage' = ZeroUsage
          /\ slept' = <<>>
          /\ outstanding' = Issued(outstanding, GatewayCall("gen", available[modelIdx]))
          /\ calls' = <<>>
          /\ started' = Append(started, <<testIdx, available[modelIdx]>>)
          /\ pc' = "genCall"
          /\ UNCHANGED <<outcome, store, progressVars>>
  /\ UNCHANGED <<variant, inputVars, cancelVars, probeVars, coordVars, result,
                 probed, completed, folded, firstTryAll>>

\* ------------------------------------------------------- runTestWithLoop
\* The statements that follow a gateway response: validate the extracted text
\* and append the IterationRecord (runner.js:90-98, 137-144).
\* A loop that keeps one record and overwrites it on every validation pass.
ValidatedOverwrites(code, iter) ==
  /\ currentCode' = Some(code)
  /\ validationResult' = Some(ValidateCode(code, DefaultLanguage))
  /\ iteration' = iter
  /\ iterationHistory' = <<IterationRecord(iter, ValidateCode(code, DefaultLanguage))>>

Validated(code, iter) ==
  /\ currentCode' = Some(code)
  /\ validationResult' = Some(ValidateCode(code, DefaultLanguage))
  /\ iteration' = iter
  /\ iterationHistory' = Append(iterationHistory, IterationRecord(iter, ValidateCode(code, DefaultLanguage)))

\* A runTestWithLoop without its try/catch: the exception leaves the function
\* and, with it, runBenchmark.
Uncaught(msg) ==
  /\ RunThrows(msg)
  /\ UNCHANGED result

\* The catch block of runTestWithLoop: the exception becomes a TestResult.
Caught(msg) ==
  /\ result' = Some(FailureResult(msg, iteration, iterationHistory, tokenUsage))
  /\ pc' = "fold"
  /\ UNCHANGED <<outcome, store, progressVars>>

\* The initial generation call returned a response.
GenOk(code, usage) ==
  /\ pc = "genCall"
  /\ outstanding' = Settled(outstanding, GatewayCall("gen", available[modelIdx]))
  /\ calls' = Append(calls, Returns("gen", usage))
  /\ tokenUsage' = TrackUsage(tokenUsage, usage)
  /\ totalTokens' = AddTokensOf(variant, totalTokens, usage)
  /\ Validated(code, 1)
  /\ firstTryAll' = (firstTryAll /\ ValidateCode(code, DefaultLanguage).valid)
  /\ pc' = "loopHead"
  /\ UNCHANGED <<variant, inputVars, cancelVars, store, progress, completedTests, probeVars,
                 coordVars, result,
                 outcome, probed, started, completed, folded, slept>>

\* The initial generation call raised.
GenRaise(e) ==
  /\ pc = "genCall"
  /\ outstanding' = Settled(outstanding, GatewayCall("gen", available[modelIdx]))
  /\ calls' = Append(calls, Raises("gen", e))
  /\ Caught(e)
  /\ firstTryAll' = FALSE
  /\ UNCHANGED <<variant, inputVars, cancelVars, probeVars, coordVars, loopVars,
                 probed, started, completed, folded>>

\* The while condition holds: the next iteration issues a fix call.
FixIssue ==
  /\ pc = "loopHead"
  /\ LoopCond(validationResult[1].valid, iteration, maxIterations)
  /\ IF variant = "web" /\ OptionalSignalAborted(abortController)
     THEN /\ Caught(CancelledMsg)
          /\ UNCHANGED <<iteration, outstanding>>
     ELSE /\ iteration' = iteration + 1
          /\ outstanding' = Issued(outstanding, GatewayCall("fix", available[modelIdx]))
          /\ pc' = "fixCall"
          /\ UNCHANGED <<result, outcome, store, progressVars>>
  /\ UNCHANGED <<variant, inputVars, cancelVars, probeVars, coordVars, currentCode,
                 validationResult, iterationHistory, tokenUsage, slept, calls, histVars>>

\* The while condition fails: runTestWithLoop returns the result of the loop.
LoopExit ==
  /\ pc = "loopHead"
  /\ ~LoopCond(validationResult[1].valid, iteration, maxIterations)
  /\ result' = Some(SuccessResult(currentCode[1], validationResult[1], iteration,
                                  iterationHistory, tokenUsage))
  /\ pc' = "fold"
  /\ UNCHANGED <<variant, inputVars, cancelVars, store, progressVars, probeVars,
                 coordVars, loopVars,
                 outcome, outstanding, calls, histVars>>

\* The fix call returned a response.
FixOk(code, usage) ==
  /\ pc = "fixCall"
  /\ outstanding' = Settled(outstanding, GatewayCall("fix", available[modelIdx]))
  /\ calls' = Append(calls, Returns("fix", usage))
  /\ tokenUsage' = TrackUsage(tokenUsage, usage)
  /\ totalTokens' = AddTokensOf(variant, totalTokens, usage)
  /\ Validated(code, iteration)
  /\ pc' = "iterSleep"
  /\ UNCHANGED <<variant, inputVars, cancelVars, store, progress, completedTests, probeVars,
                 coordVars, result,
                 outcome, histVars, slept>>

\* The fix call raised.
FixRaise(e) ==
  /\ pc = "fixCall"
  /\ outstanding' = Settled(outstanding, GatewayCall("fix", available[modelIdx]))
  /\ calls' = Append(calls, Raises("fix", e))
  /\ Caught(e)
  /\ UNCHANGED <<variant, inputVars, cancelVars, probeVars, coordVars, loopVars,
                 histVars>>

\* await sleep(500) at the end of a fix iteration.
IterSleepDone ==
  /\ pc = "iterSleep"
  /\ slept' = Append(slept, IterationDelay)
  /\ pc' = "loopHead"
  /\ UNCHANGED <<variant, inputVars, cancelVars, store, progressVars, probeVars,
                 coordVars, iteration,
                 currentCode, validationResult, iterationHistory, tokenUsage,
                 result, outcome, outstanding, calls, histVars>>

\* ------------------------------------------------- runBenchmark, continued
\* completedTests++; setState({ completedTests }) (web runner.js:437-438).
PairCompleted ==
  IF variant = "web"
  THEN /\ completedTests' = completedTests + 1
       /\ progress' = SetProgress(variant, progress, progress.totalTests, completedTests + 1)
       /\ UNCHANGED totalTokens
  ELSE UNCHANGED progressVars

\* A coordinator that gives up on the remaining pairs when a pair failed with
\* an exception.
FoldResultStopsOnError ==
  /\ pc = "fold"
  /\ results' = [results EXCEPT ![available[modelIdx]] = Fold(@, result[1])]
  /\ completed' = [completed EXCEPT ![available[modelIdx]] = @ + 1]
  /\ folded' = [folded EXCEPT ![available[modelIdx]] = Observed(@, result[1])]
  /\ testIdx' = IF result[1].success THEN testIdx ELSE numTests + 1
  /\ result' = Null
  /\ calls' = <<>>
  /\ ResetLoop
  /\ pc' = "pairSleep"
  /\ PairCompleted
  /\ UNCHANGED <<variant, inputVars, cancelVars, store, probeVars, modelIdx,
                 outcome, outstanding, probed, started, firstTryAll>>

\* A coordinator that counts a pair as completed only when its TestResult has
\* success = true.
FoldResultCountsSuccesses ==
  /\ pc = "fold"
  /\ results' = [results EXCEPT ![available[modelIdx]] = Fold(@, result[1])]
  /\ completed' = [completed EXCEPT ![available[modelIdx]] = @ + 1]
  /\ folded' = [folded EXCEPT ![available[modelIdx]] = Observed(@, result[1])]
  /\ IF result[1].success THEN PairCompleted ELSE UNCHANGED progressVars
  /\ result' = Null
  /\ calls' = <<>>
  /\ ResetLoop
  /\ pc' = "pairSleep"
  /\ UNCHANGED <<variant, inputVars, cancelVars, store, probeVars, testIdx, modelIdx,
                 outcome, outstanding, probed, started, firstTryAll>>

\* runTestWithLoop returned: fold the result into the model's aggregate
\* (runner.js:222-257, web runner.js:409-443).
FoldResult ==
  /\ pc = "fold"
  /\ results' = [results EXCEPT ![available[modelIdx]] = Fold(@, result[1])]
  /\ completed' = [completed EXCEPT ![available[modelIdx]] = @ + 1]
  /\ folded' = [folded EXCEPT ![available[modelIdx]] = Observed(@, result[1])]
  /\ result' = Null
  /\ calls' = <<>>
  /\ ResetLoop
  /\ PairCompleted
  /\ pc' = "pairSleep"
  /\ UNCHANGED <<variant, inputVars, cancelVars, store, probeVars, testIdx, modelIdx,
                 outcome, outstanding, probed, started, firstTryAll>>

\* await sleep(1000) after a pair; the for loops advance.
PairSleepDone ==
  /\ pc = "pairSleep"
  /\ testIdx' = NextPair(testIdx, modelIdx, Len(available))[1]
  /\ modelIdx' = NextPair(testIdx, modelIdx, Len(available))[2]
  /\ pc' = "pairHead"
  /\ UNCHANGED <<variant, inputVars, cancelVars, store, progressVars, probeVars, results,
                 loopVars,
                 result, outcome, outstanding, calls, histVars>>

\* Both for loops are over: runBenchmark returns the BenchmarkRun.
RunReturn ==
  /\ pc = "pairHead"
  /\ testIdx > numTests
  /\ outcome' = Returned(BenchmarkRun)
  /\ store' = SetState(variant, store, "complete", FALSE, Some(results))
  /\ UNCHANGED progressVars
  /\ pc' = "done"
  /\ UNCHANGED <<variant, inputVars, cancelVars, probeVars, coordVars, loopVars,
                 result, outstanding, calls, histVars>>

\* cancelBenchmark() (web runner.js:482-492), called from a user event while the
\* run is suspended or not running.
CancelBenchmark ==
  /\ variant = "web"
  /\ pc \in AwaitPcs \cup {"idle", "done"}
  /\ IF abortController # Null
     THEN /\ aborted' = aborted \cup {abortController[1]}
          /\ abortController' = Null
          /\ cancelPc' = IF cancelPc = Null THEN Some(pc) ELSE cancelPc
     ELSE UNCHANGED <<abortController, aborted, cancelPc>>
  /\ store' = SetState(variant, store, "idle", FALSE, store.results)
  /\ UNCHANGED progressVars
  /\ UNCHANGED <<variant, pc, inputVars, controllers, otherRuns, probeVars, coordVars,
                 loopVars,
                 result, outcome, outstanding, calls, histVars>>

\* runBenchmark is invoked again (the App's Start button, enabled while
\* store.isRunning is false) while the run followed here is still suspended:
\* the new invocation replaces the module-level abortController and resets the
\* store (web runner.js:321-331).  Of the new invocation only these writes to
\* the state it shares with the followed run are kept.
StartAnotherRun ==
  /\ variant = "web"
  /\ pc \in AwaitPcs
  /\ ~store.isRunning
  /\ controllers < MaxRuns
  /\ controllers' = controllers + 1
  /\ abortController' = Some(controllers + 1)
  /\ otherRuns' = otherRuns + 1
  /\ store' = SetState(variant, InitialStore, "checking", TRUE, Null)
  /\ progress' = SetProgress(variant, InitialProgress, Len(models) * numTests, 0)
  /\ totalTokens' = ZeroUsage
  /\ UNCHANGED completedTests
  /\ UNCHANGED <<variant, pc, inputVars, aborted, cancelPc, probeVars, coordVars,
                 loopVars, result, outcome, outstanding, calls, histVars>>

\* The results that another runBenchmark invocation publishes.
OtherRunResults == [run |-> "another"]

\* Another runBenchmark invocation ends while the run followed here is
\* suspended or over: it completed (web runner.js:454-458) or an error left it
\* (web runner.js:469-476).  Of that invocation only the write of phase,
\* isRunning and results is kept.
AnotherRunEnds(completes) ==
  /\ variant = "web"
  /\ pc \in AwaitPcs \cup {"done"}
  /\ otherRuns > 0
  /\ otherRuns' = otherRuns - 1
  /\ store' = IF completes
              THEN SetState(variant, store, "complete", FALSE, Some(OtherRunResults))
              ELSE SetState(variant, store, "idle", FALSE, store.results)
  /\ UNCHANGED <<variant, pc, inputVars, abortController, aborted, controllers, cancelPc,
                 progressVars, probeVars, coordVars, loopVars, result, outcome,
                 outstanding, calls, histVars>>

\* ---------------------------------------------------------------- callLLM
\* callLLM(options) up to its first await: the key check, and the head of the
\* retry loop with attempt = 0.
CallLLM(key, responses, retries, base) ==
  /\ gatewayPc = "idle"
  /\ apiKeySet' = key
  /\ useResponsesAPI' = responses
  /\ maxRetries' = retries
  /\ baseDelay' = base
  /\ attempt' = 0
  /\ IF variant = "web" /\ ~key
     THEN GatewayThrows(ApiKeyNotSet) /\ lastError' = Null
     ELSE IF ~(0 < retries)
     THEN GatewayThrows(Null) /\ lastError' = Null
     ELSE IF ~key
     THEN GatewayThrows(ApiKeyNotSet) /\ lastError' = Some(ApiKeyNotSet)
     ELSE /\ gatewayPc' = "attempt"
          /\ UNCHANGED <<lastError, gatewayResult>>
  /\ UNCHANGED <<network, waits>>

\* The awaited network attempt returned a response: callLLM returns it.
AttemptReturns ==
  /\ gatewayPc = "attempt"
  /\ network' = Append(network, [ok |-> TRUE, attempt |-> attempt])
  /\ gatewayResult' = Returned([attempt |-> attempt])
  /\ gatewayPc' = "done"
  /\ UNCHANGED <<apiKeySet, useResponsesAPI, maxRetries, baseDelay, attempt,
                 lastError, waits>>

\* The awaited network attempt failed: the catch block of the retry loop.
AttemptRaises(failure) ==
  /\ gatewayPc = "attempt"
  /\ LET error == ReportedError(variant, useResponsesAPI, failure)
     IN /\ network' = Append(network, [ok |-> FALSE, error |-> error])
        /\ lastError' = Some(error)
        /\ IF ~IsRetryableError(variant, error) \/ attempt = maxRetries - 1
           THEN GatewayThrows(error) /\ UNCHANGED waits
           ELSE /\ waits' = Append(waits, Delay(baseDelay, attempt))
                /\ gatewayPc' = "sleep"
                /\ UNCHANGED gatewayResult
  /\ UNCHANGED <<apiKeySet, useResponsesAPI, maxRetries, baseDelay, attempt>>

\* await sleep(delay) is over: attempt++ and the head of the retry loop.
RetrySleepDone ==
  /\ gatewayPc = "sleep"
  /\ attempt' = attempt + 1
  /\ IF attempt + 1 < maxRetries
     THEN gatewayPc' = "attempt" /\ UNCHANGED gatewayResult
     ELSE GatewayThrows(lastError[1])
  /\ UNCHANGED <<apiKeySet, useResponsesAPI, maxRetries, baseDelay, lastError,
                 network, waits>>

\* ------------------------------------------------------ store.js, calls
\* The end of every exported function that writes: the new snapshot is the
\* last object of the heap, state refers to it and the listeners receive it.
Install(h, op) ==
  /\ heap' = h
  /\ state' = Ref(h)
  /\ published' = Append(published, Ref(h))
  /\ storeOp' = Some(op)

\* setState(updates) (store.js:50-53).
SetStateCall(updates) ==
  Install(Replaced(heap, state, updates),
          [op |-> "setState", updates |-> updates])

\* A resetState that takes the token totals from the current state as well.
ResetStateKeepsTokens ==
  Install(Alloc(heap, Spread(heap[InitialStateRef],
                             [f \in ConfigFields \cup {"totalTokens"} |-> heap[state][f]])),
          [op |-> "resetState"])

\* resetState() (store.js:60-70).
ResetState ==
  Install(Alloc(heap, Spread(heap[InitialStateRef],
                             [f \in ConfigFields |-> heap[state][f]])),
          [op |-> "resetState"])

\* An addLog that pushes the log onto the array of the current snapshot.
AddLogInPlace(level) ==
  LET array == heap[state].logs
      h1 == [heap EXCEPT ![array] = LastN(Append(@, [level |-> level]), LogLimit)]
  IN Install(Replaced(h1, state, [logs |-> array]),
             [op |-> "addLog", level |-> level])

\* addLog(level, message, model) (store.js:72-83).
AddLog(level) ==
  LET h1 == Alloc(heap, Logged(heap[heap[state].logs], [level |-> level]))
  IN Install(Replaced(h1, state, [logs |-> Ref(h1)]),
             [op |-> "addLog", level |-> level])

\* updateModelStatus(modelId, updates) (store.js:85-95).
UpdateModelStatus(modelId, updates) ==
  LET modelStatus == heap[heap[state].modelStatus]
      entry == IF modelId \in DOMAIN modelStatus THEN heap[modelStatus[modelId]] ELSE <<>>
      h1 == Alloc(heap, Spread(entry, updates))
      h2 == Alloc(h1, Spread(modelStatus, modelId :> Ref(h1)))
  IN Install(Replaced(h2, state, [modelStatus |-> Ref(h2)]),
             [op |-> "updateModelStatus", modelId |-> modelId, updates |-> updates])

\* addTokens(prompt, completion, reasoning) (store.js:97-105).
AddTokens(prompt, completion, reasoning) ==
  LET current == heap[heap[state].totalTokens]
      h1 == Alloc(heap, [prompt |-> current.prompt + prompt,
                         completion |-> current.completion + completion,
                         reasoning |-> current.reasoning + reasoning])
  IN Install(Replaced(h1, state, [totalTokens |-> Ref(h1)]),
             [op |-> "addTokens", prompt |-> prompt, completion |-> completion,
              reasoning |-> reasoning])

\* The available models of the runs that initialize their results.
AvailableLists == {<<"gpt-4o">>, <<"gpt-4o", "o3-mini">>}

\* modelStatus[model.id] = { status: 'waiting', ... } (web runner.js:365-370).
WaitingStatus == [status |-> "waiting", currentIteration |-> 0]

\* runBenchmark from `const results = {}` to its setState (web
\* runner.js:352-378): an aggregate and a status object for each available
\* model, the results object and the modelStatus object that hold them, and
\* setState({ phase: 'running', modelStatus, totalTests }).  The call records
\* the reference of the results object, a local of runBenchmark.
InitializeRun(list, numCases) ==
  LET n == Len(list)
      ids == {list[i] : i \in 1..n}
      Index(mo) == CHOOSE i \in 1..n : list[i] = mo
      h1 == heap \o [i \in 1..n |-> NewAggregate]
      h2 == Alloc(h1, [mo \in ids |-> Len(heap) + Index(mo)])
      h3 == h2 \o [i \in 1..n |-> WaitingStatus]
      h4 == Alloc(h3, [mo \in ids |-> Len(h2) + Index(mo)])
      updates == [phase |-> "running", modelStatus |-> Ref(h4), totalTests |-> n * numCases]
  IN Install(Replaced(h4, state, updates),
             [op |-> "setState", updates |-> updates, results |-> Ref(h2)])

\* ------------------------------------------------------------------- Next
StepWith(usages) ==
  /\ UNCHANGED <<gatewayVars, componentVars>>
  /\ \/ ProbeIssue
     \/ ProbeOk
     \/ \E e \in GatewayErrors : ProbeRaise(e)
     \/ ProbeSleepDone
     \/ AvailabilityChecked
     \/ PairStart
     \/ \E code \in RunCodes, usage \in usages : GenOk(code, usage)
     \/ \E e \in GatewayErrors : GenRaise(e)
     \/ FixIssue
     \/ LoopExit
     \/ \E code \in RunCodes, usage \in usages : FixOk(code, usage)
     \/ \E e \in GatewayErrors : FixRaise(e)
     \/ IterSleepDone
     \/ FoldResult
     \/ PairSleepDone
     \/ RunReturn

\* The steps of a run; its responses carry the usage of RunUsages.
Step == StepWith(RunUsages)

\* The steps of a run of a single pair; its responses carry any usage.
LoopStep == StepWith(Usages)

Next ==
  \/ /\ pc = "idle"
     /\ \E ms \in ModelLists(variant), n \in 0..NumTests, mi \in 1..MaxIter :
          StartRun(ms, n, mi)
     /\ UNCHANGED <<gatewayVars, componentVars>>
  \/ Step
  \/ CancelBenchmark /\ UNCHANGED <<gatewayVars, componentVars>>
  \/ StartAnotherRun /\ UNCHANGED <<gatewayVars, componentVars>>

Spec == Init /\ [][Next]_vars

\* The runs whose responses carry a usage.
TokenNext ==
  \/ /\ pc = "idle"
     /\ \E ms \in ModelLists(variant), n \in 0..NumTests, mi \in 1..MaxIter :
          StartRun(ms, n, mi)
     /\ UNCHANGED <<gatewayVars, componentVars>>
  \/ StepWith(TokenUsages)
  \/ CancelBenchmark /\ UNCHANGED <<gatewayVars, componentVars>>
  \/ StartAnotherRun /\ UNCHANGED <<gatewayVars, componentVars>>

TokenSpec == Init /\ [][TokenNext]_vars

\* The run followed by Next together with the end of the other runBenchmark
\* invocations that were started beside it.
ConcurrentNext ==
  \/ Next
  \/ /\ \E completes \in BOOLEAN : AnotherRunEnds(completes)
     /\ UNCHANGED <<gatewayVars, componentVars>>

ConcurrentSpec == Init /\ [][ConcurrentNext]_vars

\* The runs of a single pair: one requested model and one test case, so that
\* runBenchmark invokes runTestWithLoop at most once.
LoopNext ==
  \/ /\ pc = "idle"
     /\ \E ms \in ModelLists(variant), mi \in 1..MaxIter :
          Len(ms) = 1 /\ StartRun(ms, 1, mi)
     /\ UNCHANGED <<gatewayVars, componentVars>>
  \/ LoopStep
  \/ CancelBenchmark /\ UNCHANGED <<gatewayVars, componentVars>>
  \/ StartAnotherRun /\ UNCHANGED <<gatewayVars, componentVars>>

\* The runs of a single pair, without fairness.
LoopSpec == Init /\ [][LoopNext]_vars

\* Every gateway call settles (it returns or raises), every sleep ends and the
\* run goes on when it can: the event loop runs every continuation that is due.
FairLoopSpec == Init /\ [][LoopNext]_vars /\ WF_vars(LoopStep)

\* One callLLM invocation of the gateway, on its own.
GatewayNext ==
  /\ UNCHANGED <<variant, runVars, componentVars>>
  /\ \/ /\ gatewayPc = "idle"
        /\ \E key, responses \in BOOLEAN, retries \in 0..MaxRetries,
              base \in BaseDelays : CallLLM(key, responses, retries, base)
     \/ AttemptReturns
     \/ \E failure \in AttemptFailures(variant, useResponsesAPI) :
          AttemptRaises(failure)
     \/ RetrySleepDone

GatewaySpec == Init /\ [][GatewayNext]_vars

\* A call validateCode(code, {language}) on its own.
ValidateCall(code, language) ==
  /\ validated' = Some([code |-> code, language |-> language,
                        result |-> ValidateCode(code, language)])
  /\ UNCHANGED <<variant, runVars, gatewayVars, snapshotVars, request, keyVars, logVars>>

ValidatorNext == \E code \in Texts, language \in Languages : ValidateCall(code, language)

ValidatorSpec == Init /\ [][ValidatorNext]_vars

\* The calls of the functions that store.js exports, on their own.
StoreNext ==
  /\ Len(published) <= MaxUpdates
  /\ UNCHANGED <<variant, runVars, gatewayVars, validated, request, keyVars, logVars>>
  /\ \/ \E i \in 1..Len(SetStateUpdates) : SetStateCall(SetStateUpdates[i])
     \/ ResetState
     \/ \E level \in LogLevels : AddLog(level)
     \/ \E modelId \in StatusModels, i \in 1..Len(StatusUpdates) :
          UpdateModelStatus(modelId, StatusUpdates[i])
     \/ \E t \in TokenCounts : AddTokens(t[1], t[2], t[3])
     \/ \E list \in AvailableLists : InitializeRun(list, NumTests)

StoreSpec == Init /\ [][StoreNext]_vars

\* A call callLLM({model, maxTokens, temperature, timeout: getTimeout(model)})
\* as runTestWithLoop makes it, up to the request it sends: the request of the
\* Node gateway and the request of the browser gateway for the same options.
BuildRequest(entry, maxTokens, temperature) ==
  /\ request' = Some([name |-> entry.name, model |-> entry.id, maxTokens |-> maxTokens,
                      temperature |-> temperature, timeout |-> getTimeout(entry.id),
                      node |-> NodeRequest(entry.id, maxTokens, temperature),
                      web |-> WebRequest(entry.id, maxTokens, temperature)])
  /\ UNCHANGED <<variant, runVars, gatewayVars, validated, snapshotVars, keyVars, logVars>>

RequestNext ==
  \E i \in 1..Len(MODELS), maxTokens \in MaxTokensOptions,
     temperature \in TemperatureOptions :
    BuildRequest(MODELS[i], maxTokens, temperature)

RequestSpec == Init /\ [][RequestNext]_vars

\* ------------------------------------------------ llmClient.js, testApiKey
\* The keys typed into the form.
ApiKeys == {"sk-a", "sk-b"}

\* setApiKey(key) (web llmClient.js:8-10).
SetApiKey(key) == storedApiKey' = Some(key)

\* handleApiKeyChange(key, valid) of the App while no test has been started:
\* setApiKey(key).
HandleApiKeyChange(key) ==
  /\ keyTests = <<>>
  /\ SetApiKey(key)
  /\ UNCHANGED keyTests

\* testApiKey(apiKey) up to its await (web llmClient.js:276-287), from
\* handleTest or handleKeyDown of the form: previousKey = storedApiKey,
\* setApiKey(apiKey), callLLM. The Enter key starts a test while another one
\* is awaited.
TestApiKey(apiKey) ==
  /\ Len(keyTests) < MaxKeyTests
  /\ keyTests' = Append(keyTests, [apiKey |-> apiKey, previousKey |-> storedApiKey,
                                   pc |-> "await", valid |-> FALSE])
  /\ SetApiKey(apiKey)

\* callLLM returned: return { valid: true } (line 288).
TestApiKeyReturns(i) ==
  /\ keyTests[i].pc = "await"
  /\ keyTests' = [keyTests EXCEPT ![i].pc = "returned", ![i].valid = TRUE]
  /\ UNCHANGED storedApiKey

\* callLLM raised: setApiKey(previousKey); return { valid: false } (289-292).
TestApiKeyFails(i) ==
  /\ keyTests[i].pc = "await"
  /\ keyTests' = [keyTests EXCEPT ![i].pc = "returned"]
  /\ storedApiKey' = keyTests[i].previousKey

\* handleTest after its await (ApiKeyForm.jsx:14-16):
\* onApiKeyChange(inputValue.trim(), result.valid), whose setApiKey(key) stores
\* the tested key.
HandleTestResumes(i) ==
  /\ keyTests[i].pc = "returned"
  /\ keyTests' = [keyTests EXCEPT ![i].pc = "done"]
  /\ SetApiKey(keyTests[i].apiKey)

\* The API key form on its own.
KeyNext ==
  /\ UNCHANGED <<variant, runVars, gatewayVars, validated, snapshotVars, request, logVars>>
  /\ \/ \E key \in ApiKeys : HandleApiKeyChange(key)
     \/ \E apiKey \in ApiKeys : TestApiKey(apiKey)
     \/ \E i \in 1..Len(keyTests) : TestApiKeyReturns(i)
     \/ \E i \in 1..Len(keyTests) : TestApiKeyFails(i)
     \/ \E i \in 1..Len(keyTests) : HandleTestResumes(i)

KeySpec == Init /\ [][KeyNext]_vars

\* ------------------------------------------------------ store.js, the logs
\* addLog(level, message, model) (store.js:72-83), by the content of
\* state.logs: the log is the next emission.
LogAdded ==
  /\ emitted < MaxLogs
  /\ emitted' = emitted + 1
  /\ logs' = Logged(logs, emitted + 1)

\* resetState() (store.js:60-70): logs is initialState.logs, the empty array.
LogsReset ==
  /\ logs' = InitialHeap[InitialFields.logs]
  /\ UNCHANGED emitted

\* The logs of the store on their own.
LogNext ==
  /\ UNCHANGED <<variant, runVars, gatewayVars, validated, snapshotVars, request, keyVars>>
  /\ \/ LogAdded
     \/ LogsReset

LogSpec == Init /\ [][LogNext]_vars

\* ================================================================= claims
HasResult == result # Null
TestResult == result[1]
AllInvalid(history) == \A k \in 1..Len(history) : ~history[k].valid
NoneRaised(cs) == \A k \in 1..Len(cs) : ~cs[k].raised

\* C1: every TestResult with success = true returned by runTestWithLoop has
\* 1 <= iterations <= maxIterations and passedAfterLoop = validation.valid.
C1_SuccessResultInRange ==
  (HasResult /\ TestResult.success) =>
    /\ 1 <= TestResult.iterations
    /\ TestResult.iterations <= maxIterations
    /\ TestResult.passedAfterLoop = TestResult.validation.valid

\* A success result of the CLI runner that used its whole budget of two
\* iterations and did not pass.
C1_Witness ==
  /\ variant = "cli"
  /\ HasResult
  /\ TestResult.success
  /\ maxIterations = 2
  /\ TestResult.iterations = 2
  /\ ~TestResult.passedAfterLoop

\* C2: when every generation of a pair is judged invalid and no gateway call
\* raises, the Fix-Loop returns the measured failure: exactly maxIterations
\* gateway calls, iterations = maxIterations, history of length maxIterations,
\* passedAfterLoop = false and success = true.
C2_ExhaustionIsMeasuredFailure ==
  (HasResult /\ NoneRaised(calls) /\ AllInvalid(TestResult.iterationHistory)) =>
    /\ TestResult.success
    /\ ~TestResult.passedAfterLoop
    /\ TestResult.iterations = maxIterations
    /\ Len(TestResult.iterationHistory) = maxIterations
    /\ Len(calls) = maxIterations
    /\ Len(outstanding) = 0

\* A loop of the web runner whose two generations were both invalid.
C2_Witness ==
  /\ variant = "web"
  /\ HasResult
  /\ NoneRaised(calls)
  /\ AllInvalid(TestResult.iterationHistory)
  /\ maxIterations = 2
  /\ Len(calls) = 2

\* C3: the Fix-Loop stops at the first valid verdict: a valid record is the last
\* of the history, no gateway call is issued or outstanding after it, and the
\* result then has iterations = its index and passedAfterLoop = true; a fix
\* call is outstanding only after an invalid verdict reached with
\* iteration < maxIterations.
C3_StopsAtFirstValid ==
  /\ \A k \in 1..Len(iterationHistory) :
       iterationHistory[k].valid =>
         /\ k = Len(iterationHistory)
         /\ Len(calls) = k
         /\ Len(outstanding) = 0
         /\ pc # "fixCall"
  /\ HasResult =>
       \A k \in 1..Len(TestResult.iterationHistory) :
         TestResult.iterationHistory[k].valid =>
           /\ TestResult.success
           /\ TestResult.iterations = k
           /\ TestResult.passedAfterLoop
  /\ pc = "fixCall" =>
       /\ ~validationResult[1].valid
       /\ iteration = Len(iterationHistory) + 1
       /\ iteration <= maxIterations

\* A loop that passed at its second iteration.
C3_Witness ==
  /\ HasResult
  /\ TestResult.success
  /\ TestResult.passedAfterLoop
  /\ TestResult.iterations = 2
  /\ Len(calls) = 2

InLoop == pc \in {"genCall", "loopHead", "fixCall", "iterSleep"}

\* C4: every runTestWithLoop invocation returns a TestResult (no exception
\* leaves it) after at most maxIterations gateway calls, given that every
\* gateway call settles.
C4_LoopTerminates ==
  /\ [](Len(calls) + Len(outstanding) <= maxIterations)
  /\ [](InLoop => <>(pc = "fold" /\ HasResult))

\* A loop that returned after using all of its two gateway calls.
C4_Witness ==
  /\ pc = "fold"
  /\ HasResult
  /\ maxIterations = 2
  /\ Len(calls) = 2
  /\ calls[2].raised

\* C5: a TestResult has success = false exactly when a gateway call raised
\* inside the loop; it then has validation.valid = false, passedAfterLoop =
\* false and the message of that exception as error, and the call that raised
\* is the last one of the loop.  A loop that exhausts its budget without a
\* raise has success = true.
C5_FailureIffRaised ==
  HasResult =>
    /\ ~TestResult.success <=> (\E k \in 1..Len(calls) : calls[k].raised)
    /\ ~TestResult.success =>
         /\ ~TestResult.validation.valid
         /\ ~TestResult.passedAfterLoop
         /\ calls[Len(calls)].raised
         /\ TestResult.error = calls[Len(calls)].error
         /\ NoneRaised(SubSeq(calls, 1, Len(calls) - 1))
         /\ Len(outstanding) = 0

\* A fix call that raised after an invalid first generation.
C5_Witness ==
  /\ HasResult
  /\ ~TestResult.success
  /\ Len(calls) = 2
  /\ TestResult.error = "Request timed out"

\* C6: every TestResult, the failures of the initial call included, has
\* iterations in 1..maxIterations.
C6_IterationsInRange ==
  HasResult => TestResult.iterations \in 1..maxIterations

CounterSum(agg) == agg.passedFirstTry + agg.passedAfterLoop + agg.totalFailed

\* C7: the fold of a TestResult adds one to exactly one of passedFirstTry
\* (iterations = 1 and passedAfterLoop), passedAfterLoop (iterations > 1 and
\* passedAfterLoop) and totalFailed (otherwise), leaves the other two and the
\* aggregates of the other models as they were, and keeps the sum of the three
\* equal to the number of pairs completed for the model.
C7_FoldCountsExactlyOnce ==
  [][(pc = "fold" /\ pc' # "fold") =>
       LET m == available[modelIdx]
           first == TestResult.iterations = 1 /\ TestResult.passedAfterLoop
           loop == TestResult.iterations > 1 /\ TestResult.passedAfterLoop
       IN /\ results'[m].passedFirstTry =
               results[m].passedFirstTry + (IF first THEN 1 ELSE 0)
          /\ results'[m].passedAfterLoop =
               results[m].passedAfterLoop + (IF loop THEN 1 ELSE 0)
          /\ results'[m].totalFailed =
               results[m].totalFailed + (IF ~first /\ ~loop THEN 1 ELSE 0)
          /\ DOMAIN results' = DOMAIN results
          /\ \A o \in DOMAIN results \ {m} : results'[o] = results[o]
          /\ \A o \in DOMAIN results' : CounterSum(results'[o]) = completed'[o]
    ]_vars

\* A model with one first-try pass and one infrastructure failure folded.
C7_Witness ==
  /\ pc = "pairSleep"
  /\ \E m \in DOMAIN results :
       /\ results[m].passedFirstTry = 1
       /\ results[m].totalFailed = 1
       /\ results[m].tests = 1

IsReturned == outcome # Null /\ outcome[1].kind = "returned"
Range(seq) == {seq[i] : i \in 1..Len(seq)}

\* C8: when every requested model passes the probe and every initial
\* generation is valid, runBenchmark returns a BenchmarkRun in which every model
\* has passedFirstTry = T, passedAfterLoop = 0, totalFailed = 0,
\* totalIterations = T, and testCount = T.
C8_AllFirstTry ==
  (pc = "done" /\ aborted = {} /\ Len(models) > 0 /\ Len(unavailable) = 0
     /\ firstTryAll) =>
    /\ IsReturned
    /\ outcome[1].run.testCount = numTests
    /\ DOMAIN outcome[1].run.results = Range(models)
    /\ \A m \in Range(models) :
         /\ outcome[1].run.results[m].passedFirstTry = numTests
         /\ outcome[1].run.results[m].passedAfterLoop = 0
         /\ outcome[1].run.results[m].totalFailed = 0
         /\ outcome[1].run.results[m].totalIterations = numTests

\* The case of the specification: 2 test cases and 3 models.
C8_Witness ==
  /\ IsReturned
  /\ Len(models) = 3
  /\ numTests = 2
  /\ Len(unavailable) = 0
  /\ firstTryAll

Position(seq, x) == CHOOSE i \in 1..Len(seq) : seq[i] = x

\* C9: Fix-Loops start in lexicographic (test, model) order, the models of a
\* test in the order of the available list, which keeps the relative order of
\* the requested list; the probes go through the requested list in order.
C9_PairOrder ==
  /\ \A k \in 1..Len(started) :
       started[k] = << ((k - 1) \div Len(available)) + 1,
                       available[((k - 1) % Len(available)) + 1] >>
  /\ \A i, j \in 1..Len(available) :
       i < j => Position(models, available[i]) < Position(models, available[j])
  /\ \A k \in 1..Len(probed) : probed[k] = models[k]

\* A CLI run over a reversed request of three models, one of them unavailable,
\* that started all of its four pairs.
C9_Witness ==
  /\ Len(models) = 3
  /\ models[1] > models[2]
  /\ Len(unavailable) = 1
  /\ Len(started) = 4

RECURSIVE SumCompleted(_)
SumCompleted(S) ==
  IF S = {} THEN 0
  ELSE LET m == CHOOSE x \in S : TRUE IN completed[m] + SumCompleted(S \ {m})

\* C10: at most one gateway call is outstanding: a probe, a generation or a
\* fix call is outstanding only while the run awaits it, and a pair starts only
\* when every pair started before it has been folded.
C10_SingleFlight ==
  /\ Len(outstanding) <= 1
  /\ pc = "probeCall" => outstanding = <<GatewayCall("probe", models[probeIdx])>>
  /\ pc = "genCall" => outstanding = <<GatewayCall("gen", available[modelIdx])>>
  /\ pc = "fixCall" => outstanding = <<GatewayCall("fix", available[modelIdx])>>
  /\ pc \notin {"probeCall", "genCall", "fixCall"} => outstanding = <<>>
  /\ Len(started) <= SumCompleted(ModelIds) + 1
  /\ pc \in {"pairHead", "pairSleep", "done"} => Len(started) = SumCompleted(ModelIds)
  /\ Len(started) > 0 => Len(probed) = Len(models)

\* A fix call outstanding in the second pair of a run.
C10_Witness ==
  /\ pc = "fixCall"
  /\ Len(outstanding) = 1
  /\ Len(started) = 2

IsThrown(msg) == outcome = Thrown(msg)

\* C11: a run that is not cancelled and whose probe leaves no available model
\* (an empty request included) fails with 'No models available' and starts no
\* Fix-Loop; with at least one available model the probe failures of the
\* others do not end the run: it returns a BenchmarkRun, and 'No models
\* available' is raised only after every requested model was probed and none
\* was found available.
C11_NoModelsIsTerminal ==
  /\ Len(available) = 0 => started = <<>>
  /\ (pc = "done" /\ aborted = {} /\ Len(available) = 0) => IsThrown(NoModelsMsg)
  /\ (pc = "done" /\ aborted = {} /\ Len(available) > 0) => IsReturned
  /\ IsThrown(NoModelsMsg) =>
       /\ Len(available) = 0
       /\ Len(probed) = Len(models)
       /\ Len(unavailable) = Len(models)
  /\ (pc \in {"pairHead", "genCall", "fold"} /\ aborted = {}) => outcome = Null

\* A run over two requested models whose probes both failed.
C11_Witness ==
  /\ pc = "done"
  /\ Len(models) = 2
  /\ Len(unavailable) = 2
  /\ IsThrown(NoModelsMsg)
  /\ started = <<>>

\* checkModelAvailability has returned.
ProbingOver ==
  /\ pc \notin {"idle", "probeCall", "probeSleep"}
  /\ ~(pc = "probeHead" /\ probeIdx <= Len(models))

UnavailableModels == {unavailable[i].model : i \in 1..Len(unavailable)}

\* C12: checkModelAvailability probes the requested models one at a time, each
\* once and in order; when it has returned, available and unavailable
\* partition the requested models, every unavailable entry carries the
\* message of the failure, and runBenchmark keeps aggregates for, and starts
\* Fix-Loops on, available models only.
C12_ProbePartition ==
  /\ Len(probed) <= Len(models)
  /\ \A k \in 1..Len(probed) : probed[k] = models[k]
  /\ Len(available) + Len(unavailable) =
       Len(probed) - (IF pc = "probeCall" THEN 1 ELSE 0)
  /\ pc = "probeCall" => outstanding = <<GatewayCall("probe", probed[Len(probed)])>>
  /\ Range(available) \cap UnavailableModels = {}
  /\ \A i \in 1..Len(unavailable) : unavailable[i].error \in GatewayErrors
  /\ ProbingOver =>
       /\ probed = models
       /\ Range(available) \cup UnavailableModels = Range(models)
       /\ Len(available) + Len(unavailable) = Len(models)
  /\ DOMAIN results \subseteq Range(available)
  /\ pc \in {"pairHead", "genCall", "loopHead", "fixCall", "iterSleep", "fold",
             "pairSleep"} => DOMAIN results = Range(available)
  /\ \A k \in 1..Len(started) : started[k][2] \in Range(available)
  /\ \A mo \in ModelIds : completed[mo] > 0 => mo \in Range(available)

\* A run over three requested models, one available and two not, that folded
\* a result for the available one.
C12_Witness ==
  /\ pc = "pairSleep"
  /\ Len(models) = 3
  /\ Len(available) = 1
  /\ Len(unavailable) = 2
  /\ unavailable[1].error # unavailable[2].error
  /\ completed[available[1]] = 1

AllPairs == {<<t, mo>> : t \in 1..numTests, mo \in Range(available)}

\* C13: a run that is not cancelled and has an available model ends by
\* returning a BenchmarkRun after starting the Fix-Loop exactly once for each
\* of the |available| x |testCases| pairs, whatever raised inside the pairs;
\* a result with success = false is folded into its model's totalFailed and
\* the coordinator goes on to the pair after it; the run can always take its
\* next step until it is over.
C13_EveryPairRuns ==
  /\ [](/\ \A j, k \in 1..Len(started) : started[j] = started[k] => j = k
        /\ Range(started) \subseteq AllPairs
        /\ (pc = "done" /\ aborted = {} /\ Len(available) > 0) =>
             /\ IsReturned
             /\ Range(started) = AllPairs
             /\ Len(started) = Len(available) * numTests
             /\ \A mo \in Range(available) :
                  /\ completed[mo] = numTests
                  /\ CounterSum(outcome[1].run.results[mo]) = numTests
        /\ (aborted = {} /\ pc \notin {"idle", "done"}) => ENABLED Step)
  /\ [][(pc = "fold" /\ ~TestResult.success) =>
         /\ results'[available[modelIdx]].totalFailed =
              results[available[modelIdx]].totalFailed + 1
         /\ pc' = "pairSleep"
         /\ outcome' = Null
      ]_vars

\* A returned run of two models and two tests in which a pair failed with an
\* exception and a later pair passed at the first try.
C13_Witness ==
  /\ IsReturned
  /\ Len(available) = 2
  /\ numTests = 2
  /\ results[available[1]].totalFailed = 1
  /\ results[available[1]].tests = 1
  /\ results[available[2]].passedFirstTry = 2

MainAwaitPcs == {"genCall", "fixCall", "iterSleep", "pairSleep"}

\* cancelBenchmark() aborted the run's controller during the main phase.
CancelledInMain == cancelPc # Null /\ cancelPc[1] \in MainAwaitPcs

\* C14: once cancelBenchmark() was called during the main phase of a web run,
\* the run starts no further Fix-Loop, and at the next pair boundary its
\* runBenchmark promise settles.
C14_NoPairAfterCancel ==
  [][CancelledInMain =>
       /\ started' = started
       /\ pc = "pairHead" => pc' = "done"
    ]_vars

\* C15: when cancellation is requested between pair N and pair N+1, the caller
\* of runBenchmark obtains the BenchmarkRun with the aggregates accumulated so
\* far, or the store's results hold them.
C15_PartialRunKept ==
  (pc = "done" /\ cancelPc = Some("pairSleep")) =>
    \/ IsReturned /\ outcome[1].run.results = results
    \/ store.results = Some(results)

\* C16: cancellation does not take effect inside a pair of the web runner: no
\* TestResult fails with cancellation as its cause (the error of a failure is
\* the gateway's), cancelBenchmark() changes nothing of the pair in flight,
\* the loop is left only through its result, and whenever the while condition
\* holds the next fix iteration is issued.
C16_NoCancelInsidePair ==
  /\ []((HasResult /\ ~TestResult.success) => TestResult.error \in GatewayErrors)
  /\ [][aborted' # aborted =>
         UNCHANGED <<pc, loopVars, result, results, outstanding, calls, outcome>>
      ]_vars
  /\ [][InLoop => pc' \in {"genCall", "loopHead", "fixCall", "iterSleep", "fold"}
      ]_vars
  /\ [][(pc = "loopHead" /\ LoopCond(validationResult[1].valid, iteration,
                                     maxIterations)) =>
         (pc' = "fixCall" /\ iteration' = iteration + 1)
      ]_vars

\* A web pair whose generation call was in flight when cancelBenchmark() was
\* called: its fix iteration still ran, passed, and was folded as a pass after
\* the loop.
C16_Witness ==
  /\ variant = "web"
  /\ cancelPc = Some("genCall")
  /\ pc = "pairSleep"
  /\ Len(started) = 1
  /\ results[available[1]].passedAfterLoop = 1

GatewayDone == gatewayPc = "done"
Failed(k) == ~network[k].ok
RetryableStatuses == {429, 500, 502, 503, 504}

\* The classification as the specification words it.
RetryableAsSpecified(error) ==
  \/ error.status \in RetryableStatuses
  \/ error.code \in {"ECONNRESET", "ETIMEDOUT"}
  \/ MessageIncludes(error.message, "rate limit")

AllRetryableFailures ==
  \A k \in 1..Len(network) : Failed(k) /\ RetryableAsSpecified(network[k].error)

\* C17: the wait after the failed attempt with 0-based index k is
\* baseDelay * 2^k and no wait follows the last attempt; when every attempt of
\* an invocation with maxRetries = n >= 1 failed with a retryable error, exactly
\* n attempts were made and callLLM raised the error of the last one; when an
\* attempt succeeded, callLLM returned its response and made no later attempt.
C17_RetryBudgetAndBackoff ==
  /\ \A k \in 1..Len(waits) : waits[k] = baseDelay * 2^(k - 1)
  /\ Len(network) <= maxRetries
  /\ gatewayPc = "attempt" => (Len(waits) = Len(network) /\ attempt = Len(network))
  /\ gatewayPc = "sleep" => Len(waits) = Len(network)
  /\ (GatewayDone /\ Len(network) > 0) => Len(waits) = Len(network) - 1
  /\ (GatewayDone /\ apiKeySet /\ maxRetries >= 1 /\ AllRetryableFailures) =>
       /\ Len(network) = maxRetries
       /\ gatewayResult = Thrown(network[maxRetries].error)
  /\ \A k \in 1..Len(network) :
       network[k].ok =>
         /\ k = Len(network)
         /\ GatewayDone
         /\ gatewayResult = Returned([attempt |-> k - 1])

\* Three attempts that all failed with status 429 under maxRetries = 3 and
\* baseDelay = 1000: waits of 1000 and 2000, then the 429 is raised.
C17_Witness ==
  /\ GatewayDone
  /\ maxRetries = 3
  /\ baseDelay = 1000
  /\ Len(network) = 3
  /\ \A k \in 1..3 : Failed(k) /\ network[k].error.status = 429
  /\ waits = <<1000, 2000>>
  /\ gatewayResult = Thrown(HttpError(429))

\* C18: in both gateways a failed attempt is followed by a wait and another
\* attempt exactly when attempts remain and the failure is retryable (status
\* 429, 500, 502, 503 or 504, code ECONNRESET or ETIMEDOUT, or a message
\* containing 'rate limit'); otherwise callLLM raises that same error at once,
\* with no delay.
C18_RetryIffRetryable ==
  [][(gatewayPc = "attempt" /\ Len(network') > Len(network)
        /\ ~network'[Len(network')].ok) =>
       LET error == network'[Len(network')].error
           retried == RetryableAsSpecified(error) /\ attempt < maxRetries - 1
       IN /\ retried <=> gatewayPc' = "sleep"
          /\ retried => (Len(waits') = Len(waits) + 1 /\ gatewayResult' = Null)
          /\ ~retried =>
               /\ gatewayPc' = "done"
               /\ gatewayResult' = Thrown(error)
               /\ waits' = waits
    ]_vars

\* The Node gateway retried a connection reset and then raised the 400 of the
\* second attempt without waiting, with one attempt of its budget left.
C18_Witness ==
  /\ variant = "cli"
  /\ GatewayDone
  /\ maxRetries = 3
  /\ Len(network) = 2
  /\ network[1] = [ok |-> FALSE, error |-> CodeError("ECONNRESET")]
  /\ gatewayResult = Thrown(HttpError(400))
  /\ Len(waits) = 1

\* C19: a timeout of a network attempt is retried like a transport error:
\* callLLM raises a timeout error only when maxRetries attempts were used.
C19_TimeoutIsRetried ==
  (GatewayDone /\ gatewayResult = Thrown(TimedOut)) =>
    /\ Len(network) = maxRetries
    /\ Len(waits) = maxRetries - 1

\* C20: every ValidationResult returned by validateCode, for every text and
\* every declared content kind, has valid = (errors is empty).
C20_ValidIffNoErrors ==
  validated # Null =>
    (validated[1].result.valid <=> Len(validated[1].result.errors) = 0)

\* A validateCode call that was dispatched to validateJSX.
ValidatedJSX ==
  /\ validated # Null
  /\ validated[1].language \in {"jsx", "tsx", "javascript", "typescript"}

JSXInput == validated[1].code
JSXResult == validated[1].result

\* C21: when parsing fails validateJSX returns valid = false with exactly one
\* error, the SYNTAX_ERROR, whatever patterns the text contains; when parsing
\* succeeds no SYNTAX_ERROR is present.
C21_ShortCircuit ==
  ValidatedJSX =>
    /\ ~JSXInput.parses =>
         /\ ~JSXResult.valid
         /\ ErrorTypes(JSXResult.errors) = <<"SYNTAX_ERROR">>
    /\ JSXInput.parses => ~HasType(JSXResult.errors, "SYNTAX_ERROR")

\* A text that does not parse and contains href="#", both tag mismatches and
\* a duplicate className.
C21_Witness ==
  /\ ValidatedJSX
  /\ ~JSXInput.parses
  /\ JSXInput.hrefHash
  /\ JSXInput.buttonClosedByA
  /\ JSXInput.aClosedByButton
  /\ JSXInput.dupClassName
  /\ Len(JSXResult.errors) = 1

\* C22: every result of validateJSX carries the checks map with its four
\* booleans; after a parse failure validJSX is false and the other three are
\* true.
C22_ChecksAlwaysPresent ==
  ValidatedJSX =>
    /\ "checks" \in DOMAIN JSXResult
    /\ DOMAIN JSXResult.checks =
         {"validJSX", "noHrefHash", "noMismatchedTags", "noDuplicateAttrs"}
    /\ ~JSXInput.parses =>
         /\ ~JSXResult.checks.validJSX
         /\ JSXResult.checks.noHrefHash
         /\ JSXResult.checks.noMismatchedTags
         /\ JSXResult.checks.noDuplicateAttrs

Count(b) == IF b THEN 1 ELSE 0

\* C30: when parsing succeeds the four structural checks run independently
\* and in order: errors is the navigation error (if href="#"), then a
\* MISMATCHED_TAGS per mismatch found (button closed by </a>, anchor closed by
\* </button>), then the duplicate-attribute error; each flag of checks is true
\* exactly when errors has no error of its type, and valid exactly when no
\* check found anything.
C30_IndependentChecks ==
  (ValidatedJSX /\ JSXInput.parses) =>
    /\ ErrorTypes(JSXResult.errors) =
         (IF JSXInput.hrefHash THEN <<"NAVIGATION_ERROR">> ELSE <<>>) \o
         (IF JSXInput.buttonClosedByA THEN <<"MISMATCHED_TAGS">> ELSE <<>>) \o
         (IF JSXInput.aClosedByButton THEN <<"MISMATCHED_TAGS">> ELSE <<>>) \o
         (IF JSXInput.dupClassName THEN <<"DUPLICATE_ATTRIBUTE">> ELSE <<>>)
    /\ Len(JSXResult.errors) =
         Count(JSXInput.hrefHash) + Count(JSXInput.buttonClosedByA) +
         Count(JSXInput.aClosedByButton) + Count(JSXInput.dupClassName)
    /\ JSXResult.checks.validJSX
    /\ JSXResult.checks.noHrefHash <=> ~JSXInput.hrefHash
    /\ JSXResult.checks.noMismatchedTags <=>
         ~(JSXInput.buttonClosedByA \/ JSXInput.aClosedByButton)
    /\ JSXResult.checks.noDuplicateAttrs <=> ~JSXInput.dupClassName
    /\ JSXResult.valid <=>
         ~(JSXInput.hrefHash \/ JSXInput.buttonClosedByA \/
           JSXInput.aClosedByButton \/ JSXInput.dupClassName)

\* A text that parses and has all four defects: four errors in the fixed order.
C30_Witness ==
  /\ ValidatedJSX
  /\ JSXInput.parses
  /\ ErrorTypes(JSXResult.errors) =
       <<"NAVIGATION_ERROR", "MISMATCHED_TAGS", "MISMATCHED_TAGS", "DUPLICATE_ATTRIBUTE">>
  /\ ~JSXResult.checks.noMismatchedTags

\* The count a settled call reported for a field of its usage: 0 when the call
\* raised, when its response had no usage, or when the usage lacks the field.
Reported(call, field) ==
  IF call.raised \/ call.usage = Null THEN 0
  ELSE IF Len(call.usage[1][field]) = 0 THEN 0 ELSE call.usage[1][field][1]

RECURSIVE SumReported(_, _)
SumReported(cs, field) ==
  IF Len(cs) = 0 THEN 0
  ELSE SumReported(SubSeq(cs, 1, Len(cs) - 1), field) + Reported(cs[Len(cs)], field)

ReportedUsage(cs) ==
  [prompt |-> SumReported(cs, "prompt_tokens"),
   completion |-> SumReported(cs, "completion_tokens"),
   reasoning |-> SumReported(cs, "reasoning_tokens")]

\* C23: within one runTestWithLoop invocation the counters of tokenUsage start
\* at 0, are never negative and never decrease, and the tokenUsage of the
\* returned TestResult (success true or false) is, counter by counter, the sum
\* of the usage of every gateway call of the loop that returned a response, a
\* response without usage (or without the field) counting 0.
C23_TokenUsageIsSumOfCalls ==
  /\ [](pc = "genCall" => tokenUsage = ZeroUsage)
  /\ [](tokenUsage.prompt >= 0 /\ tokenUsage.completion >= 0 /\ tokenUsage.reasoning >= 0)
  /\ [](InLoop => tokenUsage = ReportedUsage(calls))
  /\ [](HasResult => TestResult.tokenUsage = ReportedUsage(calls))
  /\ [][(InLoop /\ pc' # "pairHead") =>
          /\ tokenUsage'.prompt >= tokenUsage.prompt
          /\ tokenUsage'.completion >= tokenUsage.completion
          /\ tokenUsage'.reasoning >= tokenUsage.reasoning]_vars

\* A failed loop whose two calls settled differently: the generation returned a
\* usage with all three counts, the fix call raised, and the failure result
\* carries the counts of the first call.
C23_Witness ==
  /\ HasResult
  /\ ~TestResult.success
  /\ Len(calls) = 2
  /\ ~calls[1].raised /\ calls[1].usage = Some(Usage(<<3>>, <<2>>, <<1>>))
  /\ calls[2].raised
  /\ TestResult.tokenUsage = [prompt |-> 3, completion |-> 2, reasoning |-> 1]

\* A successful loop of two responses, one with a partial usage and one with a
\* full usage: the counters add up.
C23_WitnessSum ==
  /\ HasResult
  /\ TestResult.success
  /\ Len(calls) = 2
  /\ calls[1].usage = Some(Usage(<<1>>, <<>>, <<>>))
  /\ calls[2].usage = Some(Usage(<<3>>, <<2>>, <<1>>))
  /\ TestResult.tokenUsage = [prompt |-> 4, completion |-> 2, reasoning |-> 1]

IsPrefix(s, t) == Len(s) <= Len(t) /\ SubSeq(t, 1, Len(s)) = s
Responses(cs) == Len(SelectSeq(cs, LAMBDA c : ~c.raised))

\* C28: the iteration history of a runTestWithLoop invocation is append-only:
\* every validation pass (a gateway response) appends exactly one record and
\* nothing else touches the history, the k-th record has iteration = k, the
\* records already appended stay as they are, every record but the last has
\* valid = false, and a result with success = true has as many records as
\* iterations.
C28_HistoryAppendOnly ==
  /\ [](InLoop => Len(iterationHistory) = Responses(calls))
  /\ [](\A k \in 1..Len(iterationHistory) :
          /\ iterationHistory[k].iteration = k
          /\ k < Len(iterationHistory) => ~iterationHistory[k].valid)
  /\ [](HasResult => TestResult.iterationHistory = iterationHistory)
  /\ []((HasResult /\ TestResult.success) =>
          Len(TestResult.iterationHistory) = TestResult.iterations)
  /\ [][InLoop =>
          /\ IsPrefix(iterationHistory, iterationHistory')
          /\ Len(iterationHistory') <= Len(iterationHistory) + 1
          /\ Len(iterationHistory') = Len(iterationHistory) + 1 <=>
               (pc \in {"genCall", "fixCall"} /\ Responses(calls') = Responses(calls) + 1)]_vars

\* A loop that validated twice: two records, the first invalid, the second
\* valid, returned in a success result of two iterations.
C28_Witness ==
  /\ HasResult
  /\ TestResult.success
  /\ TestResult.iterations = 2
  /\ Len(TestResult.iterationHistory) = 2
  /\ ~TestResult.iterationHistory[1].valid
  /\ TestResult.iterationHistory[2].valid

\* C29: between any two consecutive gateway calls issued by one runTestWithLoop
\* invocation (the initial generation and the first fix call, a fix call and
\* the next) the inter-iteration delay of 500 ms elapses: when a fix call is
\* outstanding, one delay has elapsed for each call issued before it.
C29_DelayBetweenCalls ==
  pc = "fixCall" =>
    /\ Len(slept) = Len(calls)
    /\ \A k \in 1..Len(slept) : slept[k] = IterationDelay

\* The web runner with a single runBenchmark invocation.
SingleWebRun == variant = "web" /\ controllers <= 1

\* C26: in the store of the web runner, during a single run, completedTests
\* grows by exactly one at the end of each pair (whether the pair succeeded or
\* failed) and changes at no other step; 0 <= completedTests <= totalTests in
\* every state; and when the phase is 'complete' completedTests = totalTests =
\* |available| x |testCases|.
C26_CompletedTestsCountsPairs ==
  /\ [](SingleWebRun =>
          /\ 0 <= progress.completedTests
          /\ progress.completedTests <= progress.totalTests)
  /\ []((SingleWebRun /\ store.phase = "complete") =>
          /\ progress.completedTests = progress.totalTests
          /\ progress.totalTests = Len(available) * numTests)
  /\ [][(SingleWebRun /\ SingleWebRun') =>
          /\ (pc = "fold" /\ pc' = "pairSleep") =>
               progress'.completedTests = progress.completedTests + 1
          /\ ~(pc = "fold" /\ pc' = "pairSleep") =>
               progress'.completedTests = progress.completedTests]_vars

\* A completed web run of two pairs, one of which failed with an exception,
\* after a probe that dropped a requested model.
C26_Witness ==
  /\ SingleWebRun
  /\ store.phase = "complete"
  /\ progress.completedTests = 2
  /\ Len(unavailable) >= 1
  /\ \E m \in DOMAIN results : results[m].totalFailed >= 1

\* What a reader of the snapshot s sees in the heap h: the fields of the
\* snapshot with the logs, the per-model statuses and the totals they hold.
Seen(h, s) ==
  [fields |-> h[s],
   logs |-> h[h[s].logs],
   modelStatus |-> [mo \in DOMAIN h[h[s].modelStatus] |-> h[h[h[s].modelStatus][mo]]],
   totalTokens |-> h[h[s].totalTokens]]

\* The fields of the state that the last call names.
NamedFields ==
  CASE storeOp[1].op = "setState" -> DOMAIN storeOp[1].updates
    [] storeOp[1].op = "addLog" -> {"logs"}
    [] storeOp[1].op = "updateModelStatus" -> {"modelStatus"}
    [] storeOp[1].op = "addTokens" -> {"totalTokens"}
    [] storeOp[1].op = "resetState" -> DOMAIN heap[state] \ ConfigFields

\* C27: the store publishes state by replacement only.  Every setState,
\* resetState, addLog, updateModelStatus and addTokens installs a snapshot
\* object that did not exist before; no object that existed before the call is
\* changed by it, so every snapshot published earlier shows its reader the same
\* fields, logs, model statuses and token totals as before; and the fields
\* that the call does not name have, in the new snapshot, the values they had
\* in the one it replaces, the entries of the other models and the unnamed
\* fields of the updated model's entry included.
C27_AtomicReplacement ==
  [][state' # state \/ heap' # heap =>
       /\ state' > Len(heap)
       /\ state' <= Len(heap')
       /\ published' = Append(published, state')
       /\ \A r \in 1..Len(heap) : heap'[r] = heap[r]
       /\ \A k \in 1..Len(published) :
            Seen(heap', published[k]) = Seen(heap, published[k])
       /\ \A f \in DOMAIN heap[state] \ NamedFields' : heap'[state'][f] = heap[state][f]
       /\ storeOp'[1].op = "setState" =>
            \A f \in DOMAIN storeOp'[1].updates :
              heap'[state'][f] = storeOp'[1].updates[f]
       /\ storeOp'[1].op = "addLog" =>
            Seen(heap', state').logs =
              LastN(Append(Seen(heap, state).logs, [level |-> storeOp'[1].level]), LogLimit)
       /\ storeOp'[1].op = "updateModelStatus" =>
            LET old == Seen(heap, state).modelStatus
                new == Seen(heap', state').modelStatus
                mo == storeOp'[1].modelId
                upd == storeOp'[1].updates
            IN /\ DOMAIN new = DOMAIN old \cup {mo}
               /\ \A o \in DOMAIN old \ {mo} : new[o] = old[o]
               /\ \A f \in DOMAIN upd : new[mo][f] = upd[f]
               /\ mo \in DOMAIN old =>
                    /\ DOMAIN new[mo] = DOMAIN old[mo] \cup DOMAIN upd
                    /\ \A f \in DOMAIN old[mo] \ DOMAIN upd : new[mo][f] = old[mo][f]
       /\ storeOp'[1].op = "addTokens" =>
            /\ Seen(heap', state').totalTokens.prompt =
                 Seen(heap, state).totalTokens.prompt + storeOp'[1].prompt
            /\ Seen(heap', state').totalTokens.completion =
                 Seen(heap, state).totalTokens.completion + storeOp'[1].completion
            /\ Seen(heap', state').totalTokens.reasoning =
                 Seen(heap, state).totalTokens.reasoning + storeOp'[1].reasoning]_vars

\* Three calls: a log, a status update of a model and an addLog again.  The
\* first published snapshot still shows no log and no model status, the second
\* shows one log, and the current one shows two logs and the model's status.
C27_Witness ==
  /\ Len(published) = 4
  /\ storeOp # Null /\ storeOp[1].op = "addLog"
  /\ Len(Seen(heap, published[1]).logs) = 0
  /\ Len(Seen(heap, published[2]).logs) = 1
  /\ DOMAIN Seen(heap, published[2]).modelStatus = {}
  /\ DOMAIN Seen(heap, published[3]).modelStatus # {}
  /\ Len(Seen(heap, state).logs) = 2
  /\ Seen(heap, state).modelStatus = Seen(heap, published[3]).modelStatus

\* The models of the registry by family, by their registry names: the
\* responses-style family (identifier with 'codex' or '5.1'), and the
\* reasoning-class (o1/o3/o4) and GPT-5-class models outside it.
ResponsesFamily == {"GPT-5.1-codex", "Codex-latest"}
ReasoningOrGPT5 == {"GPT-5-mini", "GPT-5-nano", "o1-mini", "o3-mini", "o4-mini"}
RegistryNames == {MODELS[i].name : i \in 1..Len(MODELS)}

\* C24: for every model of the registry callLLM chooses the wire shape by
\* family: the responses-style models are sent an input array with
\* max_output_tokens and no temperature; the others a messages array, with
\* max_completion_tokens and no temperature for the reasoning-class and
\* GPT-5-class models, and with max_tokens and the caller's temperature for the
\* rest.  The Node gateway and the browser gateway choose the same shape.
C24_WireShapeByFamily ==
  request # Null =>
    LET r == request[1]
        shape == DOMAIN r.web
    IN /\ r.name \in RegistryNames
       /\ DOMAIN r.node = DOMAIN r.web
       /\ r.node.endpoint = r.web.endpoint
       /\ r.name \in ResponsesFamily =>
            /\ r.web.endpoint = "responses"
            /\ shape = {"endpoint", "model", "input", "max_output_tokens"}
            /\ r.web.input = FinalMessages
       /\ r.name \in ReasoningOrGPT5 =>
            /\ r.web.endpoint = "chat"
            /\ shape = {"endpoint", "model", "messages", "max_completion_tokens"}
            /\ r.web.messages = FinalMessages
       /\ r.name \notin ResponsesFamily \cup ReasoningOrGPT5 =>
            /\ r.web.endpoint = "chat"
            /\ shape = {"endpoint", "model", "messages", "max_tokens", "temperature"}
            /\ r.web.temperature = r.temperature
            /\ r.node.temperature = r.temperature

\* A request for o3-mini, on the chat endpoint with max_completion_tokens, and
\* the registry has models of all three families.
C24_Witness ==
  /\ request # Null
  /\ request[1].name = "o3-mini"
  /\ request[1].node.endpoint = "chat"
  /\ "max_completion_tokens" \in DOMAIN request[1].node
  /\ ResponsesFamily \subseteq RegistryNames
  /\ ReasoningOrGPT5 \subseteq RegistryNames
  /\ RegistryNames \ (ResponsesFamily \cup ReasoningOrGPT5) # {}

\* The token budget that a request carries.
SentBudget(body) ==
  IF "max_output_tokens" \in DOMAIN body THEN body.max_output_tokens
  ELSE IF "max_completion_tokens" \in DOMAIN body THEN body.max_completion_tokens
  ELSE body.max_tokens

\* C25: for every model of the registry one class decides both the budget and
\* the timeout: a model that getTimeout gives the 5-minute timeout is sent the
\* budget max(4 * maxTokens, 6000), and a model with the 2-minute timeout is
\* sent the caller's maxTokens unchanged, by both gateways.
C25_BudgetFollowsTimeoutClass ==
  request # Null =>
    LET r == request[1]
    IN /\ r.timeout \in {120000, 300000}
       /\ r.timeout = 300000 =>
            /\ SentBudget(r.node) = Max(4 * r.maxTokens, 6000)
            /\ SentBudget(r.web) = Max(4 * r.maxTokens, 6000)
       /\ r.timeout = 120000 =>
            /\ SentBudget(r.node) = r.maxTokens
            /\ SentBudget(r.web) = r.maxTokens

\* C32: in the web runner a cancellation requested while the pre-flight phase
\* is probing stops the probing: once cancelBenchmark() has aborted the run's
\* controller, no further model is probed (the probe in flight was issued
\* before the cancellation).
C32_CancelStopsProbing ==
  [][(SingleWebRun /\ SingleWebRun' /\ aborted # {}) => probed' = probed]_vars

\* cancelBenchmark() aborted the controller of the run while the run was
\* suspended, in the pre-flight phase or in the main phase.
CancelledWhileRunning == cancelPc # Null /\ cancelPc[1] \in AwaitPcs

\* C34: in the web runner a run ended by cancelBenchmark() makes runBenchmark
\* reject with an error whose message is exactly 'Benchmark cancelled', for a
\* cancellation requested in the pre-flight phase as well as in the main phase.
C34_CancelRejectsWithCancelled ==
  (SingleWebRun /\ CancelledWhileRunning /\ outcome # Null /\ outcome[1].kind = "thrown") =>
    outcome[1].error = CancelledMsg

\* C35: in every reachable state of the web store, under any interleaving of
\* runBenchmark steps and cancelBenchmark calls, isRunning is true exactly when
\* phase is 'checking' or 'running'.
C35_RunningIffActivePhase ==
  variant = "web" => (store.isRunning <=> store.phase \in {"checking", "running"})

\* The run followed here owns the first AbortController; it is cancelled once
\* that controller is aborted.
FollowedRunCancelled == variant = "web" /\ 1 \in aborted

\* C33: in the web runner, when cancelBenchmark() is called while a gateway
\* call of the run is in flight and a new runBenchmark() is started, the
\* cancelled run stops at its next pair boundary: the step it takes there ends
\* it, starts no pair and writes neither progress nor phase nor results to the
\* store that the new run now publishes to.
C33_CancelledRunStopsBesideNewRun ==
  [][(/\ FollowedRunCancelled
      /\ cancelPc[1] \in {"probeCall", "genCall", "fixCall"}
      /\ otherRuns > 0
      /\ pc = "pairHead"
      /\ pc' # pc) =>
       /\ pc' = "done"
       /\ started' = started
       /\ progress' = progress
       /\ store' = store]_vars

\* C36: in the web runner, once cancelBenchmark() has cancelled a run and set
\* the store to phase 'idle', the cancelled run never afterwards sets the
\* phase to 'complete' nor publishes results to the store, whenever the
\* cancellation was requested (the last pair and the delay after it included).
C36_CancelledRunNeverCompletes ==
  (SingleWebRun /\ CancelledWhileRunning) =>
    /\ store.phase # "complete"
    /\ store.results = Null

\* The sum of totalTokens over the aggregates of the models in S.
RECURSIVE AggregateTokens(_)
AggregateTokens(S) ==
  IF S = {} THEN ZeroUsage
  ELSE LET m == CHOOSE x \in S : TRUE
       IN AddUsage(results[m].totalTokens, AggregateTokens(S \ {m}))

\* C37: for each model, totalIterations of its aggregate equals the sum of
\* iterations, and totalTokens the sum of tokenUsage, over all TestResults
\* folded for it, infrastructure failures included; in the web runner the
\* store's totalTokens at phase 'complete' equals the sum of totalTokens over
\* all model aggregates. The code adds both totals for successful loop results
\* only, so the statement fails on a pair whose fix call raises.
C37_TotalsCoverEveryResult ==
  /\ \A m \in DOMAIN results :
       /\ results[m].totalIterations = folded[m].iterations
       /\ results[m].totalTokens = folded[m].tokenUsage
  /\ (SingleWebRun /\ store.phase = "complete")
       => totalTokens = AggregateTokens(DOMAIN results)

\* C38: for every value of maxRetries, 0 and negative values included, a
\* callLLM invocation with credentials present makes at least one network
\* attempt, and when it fails it raises the error of its last attempt. With
\* maxRetries <= 0 the body of the retry loop never runs: no attempt is made
\* and `throw lastError` raises null.
C38_AlwaysOneAttempt ==
  (gatewayPc = "done" /\ apiKeySet)
    => /\ Len(network) >= 1
       /\ gatewayResult[1].kind = "thrown"
            => /\ ~network[Len(network)].ok
               /\ gatewayResult[1].error = network[Len(network)].error

\* Every testApiKey call except call i has returned without its caller having
\* resumed, and none of them found its key valid.
OthersFailed(i) ==
  \A j \in 1..Len(keyTests) : j # i => keyTests[j].pc = "returned" /\ ~keyTests[j].valid

\* C39: testApiKey restores the stored API key on failure: when the last of a
\* set of testApiKey calls that all fail returns, overlapping calls included,
\* the stored key is the key that was stored before the first of them; when a
\* testApiKey call succeeds the stored key is the tested key. Each call
\* restores the key it found on entry, which for an overlapping call is the
\* key under test of the call before it.
C39_TestRestoresKey ==
  [][\A i \in 1..Len(keyTests) :
       (keyTests[i].pc = "await" /\ keyTests'[i].pc = "returned")
         => IF keyTests'[i].valid
            THEN storedApiKey' = Some(keyTests[i].apiKey)
            ELSE OthersFailed(i) => storedApiKey' = keyTests[1].previousKey]_vars

\* C31: starting a web run replaces the run state wholesale.  resetState
\* installs a snapshot whose completedTests, totalTokens, logs, modelStatus,
\* results and availability lists have their initial values, whatever the
\* calls before it accumulated, and whose apiKey, apiKeyValid, selectedModels,
\* testSuite and maxIterations are those of the snapshot it replaces; and the
\* aggregate map that runBenchmark begins from holds, for every available
\* model, a new object with all counters and token totals 0.
C31_RunStartReplacesState ==
  [][/\ (state' # state /\ storeOp'[1].op = "resetState") =>
          /\ \A f \in ConfigFields : heap'[state'][f] = heap[state][f]
          /\ heap'[state'].completedTests = 0
          /\ Seen(heap', state').totalTokens = ZeroUsage
          /\ Seen(heap', state').logs = <<>>
          /\ DOMAIN Seen(heap', state').modelStatus = {}
          /\ heap'[state'].results = Null
          /\ heap'[state'].availableModels = <<>>
          /\ heap'[state'].unavailableModels = <<>>
     /\ (state' # state /\ "results" \in DOMAIN storeOp'[1]) =>
          LET aggregates == heap'[storeOp'[1].results]
          IN /\ DOMAIN aggregates = DOMAIN heap'[heap'[state'].modelStatus]
             /\ DOMAIN aggregates # {}
             /\ \A mo \in DOMAIN aggregates :
                  /\ aggregates[mo] > Len(heap)
                  /\ heap'[aggregates[mo]] = NewAggregate]_vars

\* A key was entered and tokens were counted, then resetState: the new
\* snapshot keeps the key and shows token totals of 0, while the snapshot it
\* replaced showed the counted tokens.
C31_Witness ==
  /\ Len(published) = 4
  /\ storeOp # Null /\ storeOp[1].op = "resetState"
  /\ heap[published[3]].apiKey = "sk-a"
  /\ Seen(heap, published[3]).totalTokens.prompt > 0
  /\ heap[state].apiKey = "sk-a"
  /\ Seen(heap, state).totalTokens = ZeroUsage

\* C40: in every reachable state of the store logs holds at most 500 entries;
\* addLog appends the new entry last and, when the bound would be exceeded,
\* drops only the oldest entries, so logs is always the most recent entries in
\* emission order; resetState empties it.
C40_LogsAreTheLatest ==
  [][/\ Len(logs') <= LogLimit
     /\ emitted' = emitted + 1 =>
          /\ Len(logs') = (IF Len(logs) < LogLimit THEN Len(logs) + 1 ELSE LogLimit)
          /\ logs'[Len(logs')] = emitted'
          /\ \A k \in 1..Len(logs') : logs'[k] = emitted' - Len(logs') + k
     /\ (emitted' = emitted /\ logs' # logs) => logs' = <<>>]_vars

\* More than 500 logs were emitted without a reset: logs holds 500 entries and
\* the first of them is no longer the first log emitted.
C40_Witness ==
  /\ emitted > LogLimit
  /\ Len(logs) = LogLimit
  /\ logs[1] = emitted - LogLimit + 1
  /\ logs[LogLimit] = emitted

====
